---- MODULE Spec2Model ----
(***************************************************************************)
(* State-machine model of the audio engine hook useAudiometer              *)
(* (src/src/hooks/useAudiometer.ts) and of the control panel that drives   *)
(* it (AudiometerControlPanel in src/src/components/audiogram/             *)
(* PatientForm.tsx).                                                       *)
(*                                                                         *)
(* Time is counted in milliseconds and kept relative: every pending        *)
(* deadline (setTimeout, oscillator.stop(when), a gain ramp) is stored as  *)
(* the time still to go.  Audio parameter values are fixed-point numbers   *)
(* in thousandths (1.0 is 1000).                                           *)
(***************************************************************************)
EXTENDS Integers, Sequences, FiniteSets, TLC

\* ------------------------------------------------------------------ bounds
MaxTones == 2          \* tone graphs built in one behaviour
MaxAdvance == 500      \* longest single step of the clock, ms
MaxNoiseCalls == 2     \* startBackgroundNoise calls issued in one behaviour
MaxPanelEdits == 3     \* control-panel edits made in one behaviour
MaxMicCalls == 3       \* asynchronous microphone calls begun in one behaviour
MaxPermissionChanges == 2  \* permission changes made by the platform in one behaviour
MaxStarted == 4        \* sessions of all types begun side by side in one behaviour
MaxSaves == 3          \* saveThreshold calls and table edits made in one behaviour

\* ------------------------------------------------------- program constants
FADE_TIME == 10        \* ms
MsPerSecond == 1000
Null == 0
NullId == "null"       \* a device id that is null
Scale == 1000          \* fixed-point unit of audio parameter values
DbReference == 50
Micro == 1000000       \* unit in which Math.pow's result is computed

Min(a, b) == IF a < b THEN a ELSE b

SetMin(S) == CHOOSE x \in S : \A y \in S : x <= y

\* --------------------------------------------------------------- dbToGain
\* one dB up: times 10^(1/20) = 1.122018, in millionths
RECURSIVE GainUp(_)
GainUp(k) ==
  IF k = 0 THEN Micro
  ELSE LET x == GainUp(k - 1)
       IN x + (x \div 1000) * 122 + ((x \div 1000) * 18) \div 1000

\* one dB down: times 10^(-1/20) = 0.891251, in millionths
RECURSIVE GainDown(_)
GainDown(k) ==
  IF k = 0 THEN Micro
  ELSE LET x == GainDown(k - 1)
       IN (x * 891) \div 1000 + (x * 251) \div Micro

\* a power function with a floor at 10 dB
MathPow10_Floored(e) ==
  IF e >= 0 THEN GainUp(e % 20) * 10^(e \div 20)
  ELSE IF e < -40 THEN Micro \div 100
  ELSE GainDown((-e) % 20) \div 10^((-e) \div 20)

\* line 26: Math.pow(10, e / 20), in millionths; every 20 steps are one
\* decade
MathPow10(e) ==
  IF e >= 0 THEN GainUp(e % 20) * 10^(e \div 20)
  ELSE GainDown((-e) % 20) \div 10^((-e) \div 20)

\* lines 25-27: Math.pow(10, (db - 50) / 20), in the unit of the audio
\* parameters (thousandths)
dbToGain(db) == MathPow10(db - DbReference) \div (Micro \div Scale)

\* ---------------------------------------------------------- page constants
\* a threshold that is null, and the ear of an entry that has no such key
NoThreshold == -1000
Undefined == -2000

\* part_000 lines 38-50
initialThresholds ==
  [f \in {125, 250, 500, 750, 1000, 1500, 2000, 3000, 4000, 6000, 8000} |->
     [right |-> NoThreshold, left |-> NoThreshold]]

\* ------------------------------------------------------------------ inputs
Lateralities == {"left", "right", "binaural"}
StimulusTypes == {"pure", "warble", "pulsed"}
PresentationModes == {"manual", "automatic"}

MkSettings(f, i, l, s, p, d) ==
  [frequency |-> f, intensity |-> i, laterality |-> l, stimulusType |-> s,
   presentationMode |-> p, automaticDuration |-> d]

\* the settings objects handed to startTone by the engine specification
ToneInputs ==
  { MkSettings(1000, 50, "right", "pure", "manual", 2),
    MkSettings(500, 30, "left", "warble", "manual", 2),
    MkSettings(2000, 70, "binaural", "pulsed", "manual", 2),
    MkSettings(1000, 50, "binaural", "pure", "automatic", 1),
    MkSettings(500, 30, "right", "warble", "automatic", 2),
    MkSettings(2000, 70, "left", "pulsed", "automatic", 1) }

NoSettings == MkSettings(0, 0, "none", "none", "none", 0)

\* lines 29-34 (two of the four assets) and the 'none' type of line 13
NoiseKeys == {"mall", "park"}
NoiseTypes == NoiseKeys \cup {"none"}
NoiseVolumes == {40, 50}

VARIABLES
  \* device context
  audioContextRef,    \* Null, or the number of the AudioContext object it holds
  ctxState,           \* "none" | "suspended" | "running" | "closed"
  initResume,         \* resume() promise of initAudioContext: "none" | "pending" | "resolved" | "rejected"
  listeners,          \* once-listeners still registered on document
  mounted,            \* the component that uses the hook is mounted
  \* React state and the values the current callbacks captured at the last render
  isReady,
  isPlaying,
  rendered,
  \* tone refs
  oscillatorRef, gainNodeRef, pannerNodeRef, warbleLfoRef, pulsedLfoRef,
  \* Web Audio graph
  nodes,              \* sequence of node records; a node's id is its index
  edges,              \* set of connections [src, dst, port]
  timers,             \* pending setTimeout callbacks [rem, sid]
  \* background noise
  loadedNoiseBuffers, \* keys of the decoded-buffer cache (React state)
  backgroundNoiseSourceRef, backgroundNoiseGainRef,
  isBackgroundNoiseActive,
  noiseCalls,         \* startBackgroundNoise calls suspended at an await
  \* microphone
  mediaStreamRef, microphoneSourceRef, microphoneGainRef,
  isMicrophoneActive, microphoneVolume, microphoneDevices, selectedMicrophoneId,
  microphonePermissionGranted,
  permission,         \* the platform's microphone permission: "prompt" | "granted" | "denied"
  permissionStatus,   \* permissions.query of the effect: "querying" | "watching"
  streams,            \* every MediaStream getUserMedia returned; a stream's id is its index
  micCalls,           \* asynchronous microphone calls suspended at an await
  \* control panel (React state of AudiometerControlPanel)
  frequency, customFrequency, intensity, laterality, stimulusType,
  presentationMode, automaticDuration,
  pressed,            \* the inputs held down on the tone control: "mouse", "touch", "key"
  \* page (React state of AudiometerPage)
  thresholds,         \* the thresholds table: frequency -> [right, left]
  toast,              \* the last toast shown: "none" | "error" | "success"
  \* history
  contexts,           \* number of AudioContext objects constructed so far
  toneSid,            \* number of tone graphs built so far
  toneAge,            \* ms since the playing tone was started
  sessions,           \* settings of every tone graph built, by sid
  noiseIssued,        \* number of startBackgroundNoise calls made so far
  panelEdits,         \* number of control-panel edits made so far
  saves,              \* number of saveThreshold calls and table edits made so far
  micIssued,          \* number of asynchronous microphone calls made so far
  permissionChanges,  \* number of permission changes so far
  fetches,            \* number of fetch+decode rounds started, by noise type
  decodes,            \* number of decodeAudioData calls that returned a buffer, by noise type
  op,                 \* the operation that made the last step
  err                 \* an exception escaped a handler

toneRefs == <<oscillatorRef, gainNodeRef, pannerNodeRef, warbleLfoRef, pulsedLfoRef>>
ctxVars == <<audioContextRef, ctxState, initResume, listeners, mounted, contexts>>
graphVars == <<nodes, edges>>
toneHist == <<toneSid, toneAge, sessions>>
noiseRefs == <<backgroundNoiseSourceRef, backgroundNoiseGainRef>>
noiseVars == <<noiseRefs, isBackgroundNoiseActive, loadedNoiseBuffers, noiseCalls>>
noiseHist == <<noiseIssued, fetches, decodes>>
micRefs == <<mediaStreamRef, microphoneSourceRef, microphoneGainRef>>
micState == <<isMicrophoneActive, microphoneVolume, microphoneDevices, selectedMicrophoneId,
              microphonePermissionGranted>>
micPlatform == <<permission, permissionStatus, streams>>
micHist == <<micIssued, permissionChanges>>
micVars == <<micRefs, micState, micPlatform, micCalls, micHist>>
panelVars == <<frequency, customFrequency, intensity, laterality, stimulusType,
               presentationMode, automaticDuration, panelEdits>>
pageVars == <<thresholds, toast, saves>>
vars == <<ctxVars, isReady, isPlaying, rendered, toneRefs, graphVars, timers,
          noiseVars, micVars, panelVars, pageVars, pressed, toneHist, noiseHist, op, err>>

\* ------------------------------------------------------------- Web Audio
MkNode(role, sid, val) ==
  [role |-> role, sid |-> sid, val |-> val,
   run |-> IF role \in {"oscillator", "warbleLfo", "pulseLfo"} THEN "unstarted" ELSE "n/a",
   stopIn |-> -1, rampTo |-> val, rampIn |-> -1]

\* a.connect(b) / a.connect(b.param) / a.connect(ctx.destination)
connect(E, a, b, port) == E \cup {[src |-> a, dst |-> b, port |-> port]}

\* a disconnect() that drops every connection of the graph
disconnect_Everything(E, a) == {}

\* a.disconnect(): removes every outgoing connection of a
disconnect(E, a) == {e \in E : e.src # a}

\* param.setValueAtTime(v, currentTime)
setValueAtTime(N, n, v) == [N EXCEPT ![n].val = v, ![n].rampTo = v]

\* param.linearRampToValueAtTime(v, currentTime + t)
linearRampToValueAtTime(N, n, v, t) == [N EXCEPT ![n].rampTo = v, ![n].rampIn = t]

\* param.cancelScheduledValues(currentTime): drops a ramp that has not ended
cancelScheduledValues(N, n) == [N EXCEPT ![n].rampTo = N[n].val, ![n].rampIn = -1]

\* source.start(currentTime)
start(N, n) == [N EXCEPT ![n].run = "running"]

\* source.stop(currentTime + t); stop() is t = 0
stop(N, n, t) ==
  IF t = 0 THEN [N EXCEPT ![n].run = "stopped", ![n].stopIn = -1]
  ELSE [N EXCEPT ![n].stopIn = t]

\* ------------------------------------------------------------------- tone
ToneState ==
  [oscillatorRef |-> oscillatorRef, gainNodeRef |-> gainNodeRef,
   pannerNodeRef |-> pannerNodeRef, warbleLfoRef |-> warbleLfoRef,
   pulsedLfoRef |-> pulsedLfoRef, nodes |-> nodes, edges |-> edges,
   isPlaying |-> isPlaying, err |-> err]

\* stopTone without oscillatorRef.current.disconnect()
stopTone_KeepsOscillatorConnected(st) ==
  IF st.oscillatorRef # Null THEN
    LET osc == st.oscillatorRef
        g == st.gainNodeRef
        w == st.warbleLfoRef
        p == st.pulsedLfoRef
        n1 == linearRampToValueAtTime(cancelScheduledValues(st.nodes, g), g, 0, FADE_TIME)
        n2 == stop(n1, osc, FADE_TIME)
        n3 == IF w # Null THEN stop(n2, w, 0) ELSE n2
        e3 == IF w # Null THEN disconnect(st.edges, w) ELSE st.edges
        n4 == IF p # Null THEN stop(n3, p, 0) ELSE n3
        e4 == IF p # Null THEN disconnect(e3, p) ELSE e3
    IN [st EXCEPT !.nodes = n4, !.edges = e4,
                  !.oscillatorRef = Null, !.gainNodeRef = Null, !.pannerNodeRef = Null,
                  !.warbleLfoRef = Null, !.pulsedLfoRef = Null, !.isPlaying = FALSE]
  ELSE st

\* stopTone without the test of oscillatorRef.current
stopTone_NoGuard(st) ==
  IF audioContextRef = Null \/ st.gainNodeRef = Null THEN [st EXCEPT !.err = TRUE]
  ELSE [st EXCEPT !.oscillatorRef = Null, !.gainNodeRef = Null, !.pannerNodeRef = Null,
                  !.warbleLfoRef = Null, !.pulsedLfoRef = Null, !.isPlaying = FALSE]

\* a stopTone that stops the modulators but keeps their references
stopTone_KeepsModulatorRefs(st) ==
  IF st.oscillatorRef # Null THEN
    IF audioContextRef = Null \/ st.gainNodeRef = Null THEN [st EXCEPT !.err = TRUE]
    ELSE
      LET osc == st.oscillatorRef
          g == st.gainNodeRef
          w == st.warbleLfoRef
          p == st.pulsedLfoRef
          n1 == linearRampToValueAtTime(cancelScheduledValues(st.nodes, g), g, 0, FADE_TIME)
          n2 == stop(n1, osc, FADE_TIME)
          e2 == disconnect(st.edges, osc)
          n3 == IF w # Null THEN stop(n2, w, 0) ELSE n2
          e3 == IF w # Null THEN disconnect(e2, w) ELSE e2
          n4 == IF p # Null THEN stop(n3, p, 0) ELSE n3
          e4 == IF p # Null THEN disconnect(e3, p) ELSE e3
      IN [st EXCEPT !.nodes = n4, !.edges = e4,
                    !.oscillatorRef = Null, !.gainNodeRef = Null, !.pannerNodeRef = Null,
                    !.isPlaying = FALSE]
  ELSE st

\* lines 308-330
stopTone(st) ==
  IF st.oscillatorRef # Null THEN
    IF audioContextRef = Null \/ st.gainNodeRef = Null THEN [st EXCEPT !.err = TRUE]
    ELSE
      LET osc == st.oscillatorRef
          g == st.gainNodeRef
          w == st.warbleLfoRef
          p == st.pulsedLfoRef
          n1 == linearRampToValueAtTime(cancelScheduledValues(st.nodes, g), g, 0, FADE_TIME)
          n2 == stop(n1, osc, FADE_TIME)
          e2 == disconnect(st.edges, osc)
          n3 == IF w # Null THEN stop(n2, w, 0) ELSE n2
          e3 == IF w # Null THEN disconnect(e2, w) ELSE e2
          n4 == IF p # Null THEN stop(n3, p, 0) ELSE n3
          e4 == IF p # Null THEN disconnect(e3, p) ELSE e3
      IN [st EXCEPT !.nodes = n4, !.edges = e4,
                    !.oscillatorRef = Null, !.gainNodeRef = Null, !.pannerNodeRef = Null,
                    !.warbleLfoRef = Null, !.pulsedLfoRef = Null, !.isPlaying = FALSE]
  ELSE st

\* a panValue that sends a left tone to the centre
panValue_LeftCentred(lat) == IF lat = "right" THEN Scale ELSE 0

\* lines 361-366
panValue(lat) ==
  IF lat = "left" THEN -Scale ELSE IF lat = "right" THEN Scale ELSE 0

\* lines 350-416: the graph startTone builds on top of state st
buildTone(st, args, sid) ==
  LET base == Len(st.nodes)
      osc == base + 1
      g == base + 2
      pan == base + 3
      targetGain == dbToGain(args.intensity)
      n0 == st.nodes \o << MkNode("oscillator", sid, args.frequency * Scale),
                           MkNode("gain", sid, Scale),
                           MkNode("panner", sid, 0) >>
      n1 == linearRampToValueAtTime(setValueAtTime(n0, g, 0), g, targetGain, FADE_TIME)
      n2 == setValueAtTime(n1, pan, panValue(args.laterality))
      e1 == connect(connect(connect(st.edges, osc, g, "input"), g, pan, "input"), pan, 0, "destination")
      n3 == start(n2, osc)
      st1 == [st EXCEPT !.nodes = n3, !.edges = e1, !.oscillatorRef = osc,
                        !.gainNodeRef = g, !.pannerNodeRef = pan, !.isPlaying = TRUE]
  IN
  IF args.stimulusType = "warble" THEN
    LET lfo == base + 4
        gainLfo == base + 5
        modulationDepth == (args.frequency * 7 * Scale) \div 100
        m0 == n3 \o << MkNode("warbleLfo", sid, 5 * Scale), MkNode("gainLfo", sid, modulationDepth) >>
        m1 == start(m0, lfo)
        f1 == connect(connect(e1, lfo, gainLfo, "input"), gainLfo, osc, "frequency")
    IN [st1 EXCEPT !.nodes = m1, !.edges = f1, !.warbleLfoRef = lfo]
  ELSE IF args.stimulusType = "pulsed" THEN
    LET lfo == base + 4
        pulseGain == base + 5
        gainModulator == base + 6
        offsetGain == base + 7
        m0 == n3 \o << MkNode("pulseLfo", sid, (10 * Scale) \div 4),
                       MkNode("pulseGain", sid, Scale \div 2),
                       MkNode("gainModulator", sid, targetGain \div 2),
                       MkNode("offsetGain", sid, targetGain \div 2) >>
        f1 == connect(connect(connect(e1, lfo, gainModulator, "input"),
                              gainModulator, g, "gain"), offsetGain, g, "gain")
        m1 == start(m0, lfo)
    IN [st1 EXCEPT !.nodes = m1, !.edges = f1, !.pulsedLfoRef = lfo]
  ELSE st1

SetTone(st) ==
  /\ oscillatorRef' = st.oscillatorRef
  /\ gainNodeRef' = st.gainNodeRef
  /\ pannerNodeRef' = st.pannerNodeRef
  /\ warbleLfoRef' = st.warbleLfoRef
  /\ pulsedLfoRef' = st.pulsedLfoRef
  /\ nodes' = st.nodes
  /\ edges' = st.edges
  /\ isPlaying' = st.isPlaying
  /\ err' = st.err

\* the operation of the last step: its name, its settings argument, the
\* session it is about and whether that session was active when it began
MkOp(name, args, sid, wasActive) ==
  [name |-> name, settings |-> args, sid |-> sid, wasActive |-> wasActive]

\* the values a render hands to the callbacks it creates
Snapshot ==
  [isReady |-> isReady, isPlaying |-> isPlaying, loadedNoiseBuffers |-> loadedNoiseBuffers,
   isMicrophoneActive |-> isMicrophoneActive,
   microphonePermissionGranted |-> microphonePermissionGranted,
   selectedMicrophoneId |-> selectedMicrophoneId]

\* an initAudioContext that calls resume() again when an earlier one failed
initAudioContext_Retries(kind) ==
  /\ kind \in listeners
  /\ listeners' = listeners \ {kind}
  /\ IF audioContextRef = Null
       THEN /\ audioContextRef' = contexts + 1
            /\ contexts' = contexts + 1
            /\ ctxState' = "suspended"
            /\ initResume' = "pending"
       ELSE /\ initResume' = IF initResume = "rejected" THEN "pending" ELSE initResume
            /\ UNCHANGED <<audioContextRef, contexts, ctxState>>
  /\ op' = MkOp("initAudioContext", NoSettings, 0, oscillatorRef # Null)
  /\ UNCHANGED <<mounted, isReady, isPlaying, rendered, toneRefs, graphVars, timers,
                 noiseVars, panelVars, pageVars, pressed, micVars, toneHist, noiseHist, err>>

\* ---------------------------------------------------------------- actions
\* initAudioContext without the test of audioContextRef.current
initAudioContext_NoGuard(kind) ==
  /\ kind \in listeners
  /\ listeners' = listeners \ {kind}
  /\ audioContextRef' = contexts + 1
  /\ contexts' = contexts + 1
  /\ ctxState' = "suspended"
  /\ initResume' = "pending"
  /\ op' = MkOp("initAudioContext", NoSettings, 0, oscillatorRef # Null)
  /\ UNCHANGED <<mounted, isReady, isPlaying, rendered, toneRefs, graphVars, timers,
                 noiseVars, panelVars, pageVars, pressed, micVars, toneHist, noiseHist, err>>

\* lines 65-76: first click / keydown on the document
initAudioContext(kind) ==
  /\ kind \in listeners
  /\ listeners' = listeners \ {kind}
  /\ IF audioContextRef = Null
       THEN /\ audioContextRef' = contexts + 1
            /\ contexts' = contexts + 1
            /\ ctxState' = "suspended"
            /\ initResume' = "pending"
       ELSE UNCHANGED <<audioContextRef, contexts, ctxState, initResume>>
  /\ op' = MkOp("initAudioContext", NoSettings, 0, oscillatorRef # Null)
  /\ UNCHANGED <<mounted, isReady, isPlaying, rendered, toneRefs, graphVars, timers,
                 noiseVars, panelVars, pageVars, pressed, micVars, toneHist, noiseHist, err>>

\* lines 68-71: the resume() promise settles
initResumeSettled(ok) ==
  /\ initResume = "pending"
  /\ IF ok
       THEN /\ initResume' = "resolved"
            /\ ctxState' = "running"
            /\ isReady' = TRUE
       ELSE /\ initResume' = "rejected"
            /\ UNCHANGED <<ctxState, isReady>>
  /\ op' = MkOp("initResumeSettled", NoSettings, 0, oscillatorRef # Null)
  /\ UNCHANGED <<audioContextRef, listeners, mounted, contexts, isPlaying, rendered,
                 toneRefs, graphVars, timers, noiseVars, panelVars, pageVars, pressed, micVars, toneHist, noiseHist, err>>

\* React re-renders after state was set outside an event handler
Render ==
  /\ rendered # Snapshot
  /\ rendered' = Snapshot
  /\ op' = MkOp("render", NoSettings, 0, oscillatorRef # Null)
  /\ UNCHANGED <<ctxVars, isReady, isPlaying, toneRefs, graphVars, timers,
                 noiseVars, panelVars, pageVars, pressed, micVars, toneHist, noiseHist, err>>

\* lines 78-85: the cleanup of the init effect, run when the component that
\* uses the hook unmounts.  No other effect of the hook has a cleanup that
\* touches a session (lines 446-449 remove two key listeners that do nothing).
unmount ==
  /\ mounted
  /\ mounted' = FALSE
  /\ listeners' = {}
  /\ ctxState' = IF audioContextRef # Null /\ ctxState # "closed" THEN "closed" ELSE ctxState
  /\ op' = MkOp("unmount", NoSettings, 0, oscillatorRef # Null)
  /\ UNCHANGED <<audioContextRef, initResume, contexts, isReady, isPlaying, rendered, toneRefs,
                 graphVars, timers, noiseVars, panelVars, pageVars, pressed, micVars, toneHist, noiseHist, err>>

startToneRejected_NoPlayingCheck ==
  ~rendered.isReady \/ audioContextRef = Null

\* lines 333-340: the early returns of startTone
startToneRejected ==
  ~rendered.isReady \/ rendered.isPlaying \/ audioContextRef = Null

\* lines 332-424, called from the press handlers of the control panel, which
\* React re-renders before the next event.  isReady is only ever set once the
\* context runs, so the resume of lines 343-345 has nothing to do here.
startTone(args) ==
  /\ op' = MkOp("startTone", args, 0, oscillatorRef # Null)
  /\ IF startToneRejected
       THEN UNCHANGED <<ctxVars, isReady, isPlaying, rendered, toneRefs, graphVars,
                        timers, toneHist, err>>
       ELSE /\ toneSid < MaxTones
            /\ LET sid == toneSid + 1
                   st1 == stopTone(ToneState)
                   st2 == IF st1.err THEN st1 ELSE buildTone(st1, args, sid)
               IN /\ SetTone(st2)
                  /\ toneSid' = IF st1.err THEN toneSid ELSE sid
                  /\ sessions' = IF st1.err THEN sessions ELSE Append(sessions, args)
                  /\ toneAge' = 0
                  /\ timers' = IF ~st1.err /\ args.presentationMode = "automatic"
                                 THEN timers \cup {[rem |-> args.automaticDuration * MsPerSecond,
                                                    sid |-> sid]}
                                 ELSE timers
                  /\ rendered' = [rendered EXCEPT !.isPlaying = st2.isPlaying]
            /\ UNCHANGED <<ctxVars, isReady>>
  /\ UNCHANGED <<noiseVars, noiseHist, panelVars, pageVars, micVars>>

\* onStopTone() from a release handler of the control panel
StopToneCall ==
  /\ op' = MkOp("stopTone", NoSettings, toneSid, oscillatorRef # Null)
  /\ LET st1 == stopTone(ToneState)
     IN /\ SetTone(st1)
        /\ rendered' = IF oscillatorRef # Null
                         THEN [rendered EXCEPT !.isPlaying = st1.isPlaying]
                         ELSE rendered
  /\ toneAge' = 0
  /\ UNCHANGED <<ctxVars, isReady, timers, toneSid, sessions, noiseVars, noiseHist, panelVars, pageVars, micVars>>

\* lines 420-422: a setTimeout callback runs
TimerFire ==
  \E t \in timers :
    /\ t.rem = 0
    /\ timers' = timers \ {t}
    /\ op' = MkOp("timer", NoSettings, t.sid, oscillatorRef # Null)
    /\ SetTone(stopTone(ToneState))
    /\ toneAge' = 0
    /\ UNCHANGED <<ctxVars, isReady, rendered, toneSid, sessions, noiseVars, noiseHist, panelVars, pageVars, pressed, micVars>>

\* ------------------------------------------------------- background noise
NoiseState ==
  [backgroundNoiseSourceRef |-> backgroundNoiseSourceRef,
   backgroundNoiseGainRef |-> backgroundNoiseGainRef,
   nodes |-> nodes, edges |-> edges,
   isBackgroundNoiseActive |-> isBackgroundNoiseActive]

\* stopBackgroundNoise without backgroundNoiseGainRef.current.disconnect()
stopBackgroundNoise_KeepsGainConnected(ns) ==
  LET src == ns.backgroundNoiseSourceRef
      n1 == IF src # Null THEN stop(ns.nodes, src, 0) ELSE ns.nodes
      e1 == IF src # Null THEN disconnect(ns.edges, src) ELSE ns.edges
  IN [ns EXCEPT !.nodes = n1, !.edges = e1,
                !.backgroundNoiseSourceRef = Null, !.backgroundNoiseGainRef = Null,
                !.isBackgroundNoiseActive = FALSE]

\* lines 201-216
stopBackgroundNoise(ns) ==
  LET src == ns.backgroundNoiseSourceRef
      g == ns.backgroundNoiseGainRef
      n1 == IF src # Null THEN stop(ns.nodes, src, 0) ELSE ns.nodes
      e1 == IF src # Null THEN disconnect(ns.edges, src) ELSE ns.edges
      e2 == IF g # Null THEN disconnect(e1, g) ELSE e1
  IN [ns EXCEPT !.nodes = n1, !.edges = e2,
                !.backgroundNoiseSourceRef = Null, !.backgroundNoiseGainRef = Null,
                !.isBackgroundNoiseActive = FALSE]

\* a noise graph whose gain comes from 10^(dB/20) with the reference at 40 dB
buildNoise_OwnFormula(ns, call) ==
  LET base == Len(ns.nodes)
      source == base + 1
      gainNode == base + 2
      calculatedGain == dbToGain(call.volume + 10)
      n0 == ns.nodes \o << MkNode("noiseSource", call.id, Scale), MkNode("noiseGain", call.id, Scale) >>
      n1 == setValueAtTime(n0, gainNode, calculatedGain)
      e1 == connect(connect(ns.edges, source, gainNode, "input"), gainNode, 0, "destination")
      n2 == start(n1, source)
  IN [ns EXCEPT !.nodes = n2, !.edges = e1,
                !.backgroundNoiseSourceRef = source, !.backgroundNoiseGainRef = gainNode,
                !.isBackgroundNoiseActive = TRUE]

\* lines 240-256: the graph startBackgroundNoise builds once it has a buffer
buildNoise(ns, call) ==
  LET base == Len(ns.nodes)
      source == base + 1
      gainNode == base + 2
      calculatedGain == dbToGain(call.volume)
      n0 == ns.nodes \o << MkNode("noiseSource", call.id, Scale), MkNode("noiseGain", call.id, Scale) >>
      n1 == setValueAtTime(n0, gainNode, calculatedGain)
      e1 == connect(connect(ns.edges, source, gainNode, "input"), gainNode, 0, "destination")
      n2 == start(n1, source)
  IN [ns EXCEPT !.nodes = n2, !.edges = e1,
                !.backgroundNoiseSourceRef = source, !.backgroundNoiseGainRef = gainNode,
                !.isBackgroundNoiseActive = TRUE]

SetNoise(ns) ==
  /\ backgroundNoiseSourceRef' = ns.backgroundNoiseSourceRef
  /\ backgroundNoiseGainRef' = ns.backgroundNoiseGainRef
  /\ nodes' = ns.nodes
  /\ edges' = ns.edges
  /\ isBackgroundNoiseActive' = ns.isBackgroundNoiseActive

\* lines 174-185: loadAudio up to its first await, run by the loadAudio
\* closure the call captured; "cached" when that closure's map has the key
loadAudioBegins(call) == IF call.cached THEN "cached" ELSE "fetch"

\* lines 219-237: startBackgroundNoise up to its first await.  The record of
\* the suspended call keeps its arguments, what its loadAudio closure saw in
\* the cache, and (as history) the source that played when it was made.
startBackgroundNoise(noiseType, volume) ==
  /\ noiseIssued < MaxNoiseCalls
  /\ noiseIssued' = noiseIssued + 1
  /\ op' = MkOp("startBackgroundNoise", NoSettings, noiseIssued + 1, backgroundNoiseSourceRef # Null)
  /\ SetNoise(stopBackgroundNoise(NoiseState))
  /\ IF noiseType = "none" \/ audioContextRef = Null
       THEN UNCHANGED <<noiseCalls, fetches>>
       ELSE LET call == [id |-> noiseIssued + 1, noiseType |-> noiseType, volume |-> volume,
                         cached |-> noiseType \in rendered.loadedNoiseBuffers,
                         prior |-> backgroundNoiseSourceRef,
                         pc |-> "resume"]
                pc == IF ctxState = "suspended" THEN "resume" ELSE loadAudioBegins(call)
            IN /\ noiseCalls' = noiseCalls \cup {[call EXCEPT !.pc = pc]}
               /\ fetches' = IF pc = "fetch"
                               THEN [fetches EXCEPT ![noiseType] = @ + 1] ELSE fetches
  /\ UNCHANGED <<ctxVars, isReady, isPlaying, rendered, toneRefs, timers, loadedNoiseBuffers,
                 decodes, panelVars, pageVars, pressed, micVars, toneHist, err>>

\* line 233: the awaited resume() settles (a rejection is caught and logged)
noiseResumeSettled(call, ok) ==
  /\ call \in noiseCalls
  /\ call.pc = "resume"
  /\ ctxState' = IF ok /\ ctxState = "suspended" THEN "running" ELSE ctxState
  /\ LET pc == loadAudioBegins(call)
     IN /\ noiseCalls' = (noiseCalls \ {call}) \cup {[call EXCEPT !.pc = pc]}
        /\ fetches' = IF pc = "fetch"
                        THEN [fetches EXCEPT ![call.noiseType] = @ + 1] ELSE fetches
  /\ op' = MkOp("noiseResumeSettled", NoSettings, call.id, backgroundNoiseSourceRef # Null)
  /\ UNCHANGED <<audioContextRef, initResume, listeners, mounted, contexts, isReady,
                 isPlaying, rendered, toneRefs, graphVars, timers, noiseRefs, isBackgroundNoiseActive,
                 loadedNoiseBuffers, panelVars, pageVars, pressed, micVars, toneHist, noiseIssued, decodes, err>>

\* lines 185-197 and 239-259: loadAudio returns (a buffer, or null after a
\* failed fetch or decode) and startBackgroundNoise runs to its end
noiseLoadSettled(call, ok) ==
  /\ call \in noiseCalls
  /\ call.pc \in {"fetch", "cached"}
  /\ call.pc = "cached" => ok
  /\ noiseCalls' = noiseCalls \ {call}
  /\ loadedNoiseBuffers' = IF call.pc = "fetch" /\ ok
                             THEN loadedNoiseBuffers \cup {call.noiseType}
                             ELSE loadedNoiseBuffers
  /\ decodes' = IF call.pc = "fetch" /\ ok
                  THEN [decodes EXCEPT ![call.noiseType] = @ + 1] ELSE decodes
  /\ IF ok THEN SetNoise(buildNoise(NoiseState, call))
           ELSE UNCHANGED <<noiseRefs, graphVars, isBackgroundNoiseActive>>
  /\ op' = MkOp("noiseLoadSettled", NoSettings, call.id, backgroundNoiseSourceRef # Null)
  /\ UNCHANGED <<ctxVars, isReady, isPlaying, rendered, toneRefs, timers,
                 panelVars, pageVars, pressed, micVars, toneHist, noiseIssued, fetches, err>>

\* stopBackgroundNoise() called by the user interface
StopBackgroundNoiseCall ==
  /\ op' = MkOp("stopBackgroundNoise", NoSettings, 0, backgroundNoiseSourceRef # Null)
  /\ SetNoise(stopBackgroundNoise(NoiseState))
  /\ UNCHANGED <<ctxVars, isReady, isPlaying, rendered, toneRefs, timers, loadedNoiseBuffers,
                 noiseCalls, panelVars, pageVars, pressed, micVars, toneHist, noiseHist, err>>

\* ------------------------------------------------------------- microphone
\* device ids are strings; null and '' are the falsy ones
falsy(id) == id \in {NullId, ""}

\* what enumerateDevices can answer: the ids of the audio inputs, in order
EnumeratedInputs == {<< >>, <<"mic1", "mic2">>}
MicVolumes == {40}
StartVolumes == {50}

MicState ==
  [mediaStreamRef |-> mediaStreamRef, microphoneSourceRef |-> microphoneSourceRef,
   microphoneGainRef |-> microphoneGainRef, streams |-> streams,
   nodes |-> nodes, edges |-> edges, isMicrophoneActive |-> isMicrophoneActive]

\* stream.getTracks().forEach(track => track.stop())
stopTracks(S, s) == [S EXCEPT ![s].tracks = [i \in DOMAIN @ |-> "ended"]]

\* stopMicrophone that drops the stream without stopping its tracks
stopMicrophone_KeepsTracks(ms) ==
  LET src == ms.microphoneSourceRef
      g == ms.microphoneGainRef
      e1 == IF src # Null THEN disconnect(ms.edges, src) ELSE ms.edges
      e2 == IF g # Null THEN disconnect(e1, g) ELSE e1
  IN [ms EXCEPT !.edges = e2,
                !.mediaStreamRef = Null, !.microphoneSourceRef = Null,
                !.microphoneGainRef = Null, !.isMicrophoneActive = FALSE]

\* lines 89-104
stopMicrophone(ms) ==
  LET s == ms.mediaStreamRef
      src == ms.microphoneSourceRef
      g == ms.microphoneGainRef
      S1 == IF s # Null THEN stopTracks(ms.streams, s) ELSE ms.streams
      e1 == IF src # Null THEN disconnect(ms.edges, src) ELSE ms.edges
      e2 == IF g # Null THEN disconnect(e1, g) ELSE e1
  IN [ms EXCEPT !.streams = S1, !.edges = e2,
                !.mediaStreamRef = Null, !.microphoneSourceRef = Null,
                !.microphoneGainRef = Null, !.isMicrophoneActive = FALSE]

\* getUserMedia answers with a new stream of one live audio track
MkStream(call) == [tracks |-> <<"live">>, deviceId |-> call.deviceId, call |-> call.id]

\* lines 280-291: startMicrophone once getUserMedia has answered with a stream
buildMicrophone(ms, call) ==
  LET stream == Len(ms.streams) + 1
      base == Len(ms.nodes)
      source == base + 1
      gainNode == base + 2
      n0 == ms.nodes \o << MkNode("micSource", call.id, Scale), MkNode("micGain", call.id, Scale) >>
      n1 == setValueAtTime(n0, gainNode, dbToGain(call.volume))
      e1 == connect(connect(ms.edges, source, gainNode, "input"), gainNode, 0, "destination")
  IN [ms EXCEPT !.streams = Append(ms.streams, MkStream(call)),
                !.mediaStreamRef = stream,
                !.nodes = n1, !.edges = e1,
                !.microphoneSourceRef = source, !.microphoneGainRef = gainNode,
                !.isMicrophoneActive = TRUE]

SetMic(ms) ==
  /\ mediaStreamRef' = ms.mediaStreamRef
  /\ microphoneSourceRef' = ms.microphoneSourceRef
  /\ microphoneGainRef' = ms.microphoneGainRef
  /\ streams' = ms.streams
  /\ nodes' = ms.nodes
  /\ edges' = ms.edges
  /\ isMicrophoneActive' = ms.isMicrophoneActive

\* a suspended asynchronous call: its kind ("start", "request", "enumerate"),
\* the await it waits at, and the values its closure and arguments hold
MkCall(id, kind, pc, volume, deviceId) ==
  [id |-> id, kind |-> kind, pc |-> pc, volume |-> volume, deviceId |-> deviceId]

\* lines 107-113: getMicrophoneDevices up to its await, run by the closure of
\* the last render
getMicrophoneDevices(id) ==
  MkCall(id, "enumerate", "enumerateDevices", 0, rendered.selectedMicrophoneId)

MicOp(name, id) == MkOp(name, NoSettings, id, isMicrophoneActive)

MicFrame ==
  UNCHANGED <<audioContextRef, initResume, listeners, mounted, contexts, isReady, isPlaying,
              toneRefs, timers, noiseVars, panelVars, pageVars, pressed, toneHist, noiseHist>>

\* lines 146-154: the permissions.query of the mount effect answers
permissionQuerySettled ==
  /\ permissionStatus = "querying"
  /\ permission = "granted" => micIssued < MaxMicCalls
  /\ permissionStatus' = "watching"
  /\ microphonePermissionGranted' = (permission = "granted")
  /\ IF permission = "granted"
       THEN /\ micCalls' = micCalls \cup {getMicrophoneDevices(micIssued + 1)}
            /\ micIssued' = micIssued + 1
       ELSE UNCHANGED <<micCalls, micIssued>>
  /\ op' = MicOp("permissionQuerySettled", 0)
  /\ MicFrame
  /\ UNCHANGED <<ctxState, rendered, graphVars, micRefs, isMicrophoneActive, microphoneVolume,
                 microphoneDevices, selectedMicrophoneId, permission, streams,
                 permissionChanges, err>>

\* lines 155-163: permissionStatus.onchange
onchange(state) ==
  IF state = "granted"
    THEN /\ microphonePermissionGranted' = TRUE
         /\ micCalls' = micCalls \cup {getMicrophoneDevices(micIssued + 1)}
         /\ micIssued' = micIssued + 1
         /\ UNCHANGED <<micRefs, streams, graphVars, isMicrophoneActive>>
    ELSE /\ microphonePermissionGranted' = FALSE
         /\ SetMic(stopMicrophone(MicState))
         /\ UNCHANGED <<micCalls, micIssued>>

\* the user or the platform changes the microphone permission; the handler
\* of lines 155-163 runs if the effect has installed it.  The state it sets
\* inside the change event is rendered before the next event is handled.
permissionChange(state) ==
  /\ permissionChanges < MaxPermissionChanges
  /\ permissionChanges' = permissionChanges + 1
  /\ state # permission
  /\ (state = "granted" /\ permissionStatus = "watching") => micIssued < MaxMicCalls
  /\ permission' = state
  /\ IF permissionStatus = "watching"
       THEN onchange(state)
       ELSE UNCHANGED <<microphonePermissionGranted, micCalls, micIssued, micRefs, streams,
                        graphVars, isMicrophoneActive>>
  /\ op' = MicOp("permissionChange", 0)
  /\ MicFrame
  /\ UNCHANGED <<ctxState, microphoneVolume, microphoneDevices, selectedMicrophoneId,
                 permissionStatus, err>>
  /\ rendered' = IF \/ microphonePermissionGranted' # microphonePermissionGranted
                    \/ isMicrophoneActive' # isMicrophoneActive
                   THEN Snapshot' ELSE rendered

\* lines 126-128: requestMicrophonePermission up to its await
requestMicrophonePermission ==
  /\ micIssued < MaxMicCalls
  /\ micIssued' = micIssued + 1
  /\ micCalls' = micCalls \cup {MkCall(micIssued + 1, "request", "getUserMedia", 0, NullId)}
  /\ op' = MicOp("requestMicrophonePermission", micIssued + 1)
  /\ MicFrame
  /\ UNCHANGED <<ctxState, rendered, graphVars, micRefs, micState, micPlatform,
                 permissionChanges, err>>

\* lines 128-137: the getUserMedia of requestMicrophonePermission answers; it
\* can answer with a stream only while the permission is granted
requestSettled(call, ok) ==
  /\ call \in micCalls
  /\ call.kind = "request"
  /\ ok => (permission = "granted" /\ micIssued < MaxMicCalls)
  /\ microphonePermissionGranted' = ok
  /\ IF ok
       THEN /\ streams' = stopTracks(Append(streams, MkStream(call)), Len(streams) + 1)
            /\ micCalls' = (micCalls \ {call}) \cup {getMicrophoneDevices(micIssued + 1)}
            /\ micIssued' = micIssued + 1
       ELSE /\ micCalls' = micCalls \ {call}
            /\ UNCHANGED <<streams, micIssued>>
  /\ op' = MicOp("requestSettled", call.id)
  /\ MicFrame
  /\ UNCHANGED <<ctxState, rendered, graphVars, micRefs, isMicrophoneActive, microphoneVolume,
                 microphoneDevices, selectedMicrophoneId, permission, permissionStatus,
                 permissionChanges, err>>

\* lines 113-122: enumerateDevices answers (or fails, which is logged)
enumerateSettled(call, ok, inputs) ==
  /\ call \in micCalls
  /\ call.kind = "enumerate"
  /\ micCalls' = micCalls \ {call}
  /\ IF ok
       THEN /\ microphoneDevices' = inputs
            /\ selectedMicrophoneId' =
                 IF Len(inputs) > 0 /\ falsy(call.deviceId) THEN inputs[1]
                 ELSE selectedMicrophoneId
       ELSE UNCHANGED <<microphoneDevices, selectedMicrophoneId>>
  /\ op' = MicOp("enumerateSettled", call.id)
  /\ MicFrame
  /\ UNCHANGED <<ctxState, rendered, graphVars, micRefs, isMicrophoneActive, microphoneVolume,
                 microphonePermissionGranted, micPlatform, micHist, err>>

\* setSelectedMicrophoneId(id) from a control of the user interface
setSelectedMicrophoneId(id) ==
  /\ selectedMicrophoneId' = id
  /\ op' = MicOp("setSelectedMicrophoneId", 0)
  /\ MicFrame
  /\ UNCHANGED <<ctxState, graphVars, micRefs, isMicrophoneActive, microphoneVolume,
                 microphoneDevices, microphonePermissionGranted, micPlatform, micCalls,
                 micHist, err>>
  /\ rendered' = IF id # selectedMicrophoneId THEN Snapshot' ELSE rendered

\* a volume effect that creates a gain node for the new volume
volumeEffect_NewGainNode(N, volume) ==
  IF microphoneGainRef # Null /\ audioContextRef # Null
    THEN setValueAtTime(Append(N, MkNode("micGain", N[microphoneGainRef].sid, Scale)),
                        Len(N) + 1, dbToGain(volume))
    ELSE N

\* lines 301-305: the effect that follows a change of microphoneVolume
volumeEffect(N, volume) ==
  IF microphoneGainRef # Null /\ audioContextRef # Null
    THEN setValueAtTime(N, microphoneGainRef, dbToGain(volume))
    ELSE N

\* setMicrophoneVolume(volume) from a control of the user interface; the
\* render it causes runs the volume effect
setMicrophoneVolume(volume) ==
  /\ microphoneVolume' = volume
  /\ nodes' = IF volume # microphoneVolume THEN volumeEffect(nodes, volume) ELSE nodes
  /\ op' = MicOp("setMicrophoneVolume", 0)
  /\ MicFrame
  /\ UNCHANGED <<ctxState, edges, micRefs, isMicrophoneActive, microphoneDevices,
                 selectedMicrophoneId, microphonePermissionGranted, micPlatform, micCalls,
                 micHist, err>>
  /\ rendered' = IF volume # microphoneVolume THEN Snapshot' ELSE rendered

\* line 264: the early return of startMicrophone
startMicrophoneRejected ==
  \/ ~rendered.isReady
  \/ rendered.isMicrophoneActive
  \/ audioContextRef = Null
  \/ ~rendered.microphonePermissionGranted
  \/ falsy(rendered.selectedMicrophoneId)

\* lines 263-275: startMicrophone up to its first await
startMicrophone(volume) ==
  /\ op' = MicOp("startMicrophone", micIssued + 1)
  /\ IF startMicrophoneRejected
       THEN UNCHANGED <<micCalls, micIssued>>
       ELSE /\ micIssued < MaxMicCalls
            /\ micCalls' = micCalls \cup
                 {MkCall(micIssued + 1, "start",
                         IF ctxState = "suspended" THEN "resume" ELSE "getUserMedia",
                         volume, rendered.selectedMicrophoneId)}
            /\ micIssued' = micIssued + 1
  /\ MicFrame
  /\ UNCHANGED <<ctxState, rendered, graphVars, micRefs, micState, micPlatform,
                 permissionChanges, err>>

\* line 271: the awaited resume() settles; a rejection leaves startMicrophone
\* as a rejected promise nobody handles
micResumeSettled(call, ok) ==
  /\ call \in micCalls
  /\ call.pc = "resume"
  /\ IF ok
       THEN /\ ctxState' = IF ctxState = "suspended" THEN "running" ELSE ctxState
            /\ micCalls' = (micCalls \ {call}) \cup {[call EXCEPT !.pc = "getUserMedia"]}
            /\ err' = err
       ELSE /\ micCalls' = micCalls \ {call}
            /\ err' = TRUE
            /\ UNCHANGED ctxState
  /\ op' = MicOp("micResumeSettled", call.id)
  /\ MicFrame
  /\ UNCHANGED <<rendered, graphVars, micRefs, micState, micPlatform, micHist>>

\* lines 275-297: the getUserMedia of startMicrophone answers; it can answer
\* with a stream only while the permission is granted
startSettled(call, ok) ==
  /\ call \in micCalls
  /\ call.kind = "start"
  /\ call.pc = "getUserMedia"
  /\ ok => permission = "granted"
  /\ micCalls' = micCalls \ {call}
  /\ IF ok THEN SetMic(buildMicrophone(MicState, call))
           ELSE /\ isMicrophoneActive' = FALSE
                /\ UNCHANGED <<micRefs, streams, graphVars>>
  /\ op' = MicOp("startSettled", call.id)
  /\ MicFrame
  /\ UNCHANGED <<ctxState, rendered, microphoneVolume, microphoneDevices, selectedMicrophoneId,
                 microphonePermissionGranted, permission, permissionStatus, micHist, err>>

\* stopMicrophone() called by the user interface
StopMicrophoneCall ==
  /\ op' = MicOp("stopMicrophone", 0)
  /\ SetMic(stopMicrophone(MicState))
  /\ MicFrame
  /\ UNCHANGED <<ctxState, microphoneVolume, microphoneDevices, selectedMicrophoneId,
                 microphonePermissionGranted, permission, permissionStatus, micCalls,
                 micHist, err>>
  /\ rendered' = IF isMicrophoneActive THEN Snapshot' ELSE rendered

\* lines 452-470: the names the hook returns
ReturnedInterface ==
  {"startTone", "stopTone", "isPlaying", "isReady", "startMicrophone", "stopMicrophone",
   "isMicrophoneActive", "microphoneVolume", "setMicrophoneVolume", "microphoneDevices",
   "selectedMicrophoneId", "setSelectedMicrophoneId", "microphonePermissionGranted",
   "requestMicrophonePermission", "isBackgroundNoiseActive", "startBackgroundNoise",
   "stopBackgroundNoise"}

\* the platform suspends the running context (an interruption)
contextInterrupted ==
  /\ ctxState = "running"
  /\ ctxState' = "suspended"
  /\ op' = MicOp("contextInterrupted", 0)
  /\ MicFrame
  /\ UNCHANGED <<rendered, graphVars, micVars, err>>

\* lines 54-61: the microphone refs and state of a mounted hook, the
\* permission the platform holds and the query of the mount effect
InitMicrophone ==
  /\ mediaStreamRef = Null
  /\ microphoneSourceRef = Null
  /\ microphoneGainRef = Null
  /\ isMicrophoneActive = FALSE
  /\ microphoneVolume = 50
  /\ microphoneDevices = << >>
  /\ selectedMicrophoneId = NullId
  /\ microphonePermissionGranted = FALSE
  /\ permission = "prompt"
  /\ permissionStatus = "querying"
  /\ streams = << >>
  /\ micCalls = {}
  /\ micIssued = 0
  /\ permissionChanges = 0

\* ---------------------------------------------------------- control panel
\* Strings typed into or emitted by form controls are sequences of
\* characters: 0..9 are the digits, the others are named below.
Dot == 10
Minus == 11
EmptyString == << >>
CustomValue == <<12>>     \* the value 'custom' of the frequency select; 12 is a letter

IsDigit(c) == c \in 0..9

\* /^\d+$/.test(str)
AllDigits(str) == Len(str) > 0 /\ \A i \in 1..Len(str) : IsDigit(str[i])

RECURSIVE DigitsValue(_)
DigitsValue(str) ==
  IF str = << >> THEN 0
  ELSE 10 * DigitsValue(SubSeq(str, 1, Len(str) - 1)) + str[Len(str)]

RECURSIVE LeadingDigits(_)
LeadingDigits(str) ==
  IF str = << >> \/ ~IsDigit(Head(str)) THEN << >>
  ELSE <<Head(str)>> \o LeadingDigits(Tail(str))

\* parseInt(str): an optional sign and the leading digits; NaN without digits
parseInt(str) ==
  LET neg == str # << >> /\ Head(str) = Minus
      body == LeadingDigits(IF neg THEN Tail(str) ELSE str)
  IN IF body = << >> THEN [nan |-> TRUE, val |-> 0]
     ELSE [nan |-> FALSE, val |-> IF neg THEN -DigitsValue(body) ELSE DigitsValue(body)]

\* parseFloat(str), applied to the digit strings customFrequency holds
parseFloat(str) == parseInt(str).val

\* String(n) for a number n >= 0
RECURSIVE String(_)
String(n) == IF n < 10 THEN <<n>> ELSE String(n \div 10) \o <<n % 10>>

\* line 582
fixedFrequencies == <<125, 250, 500, 750, 1000, 1500, 2000, 3000, 4000, 6000, 8000>>

includes(list, x) == \E i \in DOMAIN list : list[i] = x

indexOf(list, x) == CHOOSE i \in DOMAIN list : list[i] = x

\* line 600
currentFrequency ==
  IF customFrequency # EmptyString THEN parseFloat(customFrequency) ELSE frequency

\* line 718
isFrequencyInvalid ==
  customFrequency # EmptyString
    /\ (parseFloat(customFrequency) < 100 \/ parseFloat(customFrequency) > 10000)

\* lines 680-687
settings ==
  MkSettings(currentFrequency, intensity, laterality, stimulusType,
             presentationMode, automaticDuration)

PanelFrame ==
  UNCHANGED <<ctxVars, isReady, isPlaying, rendered, toneRefs, graphVars, timers,
              noiseVars, micVars, pageVars, pressed, toneHist, noiseHist, err>>

PanelEdit(name) ==
  /\ panelEdits < MaxPanelEdits
  /\ panelEdits' = panelEdits + 1
  /\ op' = MkOp(name, NoSettings, 0, oscillatorRef # Null)
  /\ PanelFrame

\* lines 602-613
handleFrequencyChange(value) ==
  /\ PanelEdit("handleFrequencyChange")
  /\ IF value = CustomValue
       THEN frequency' = 0 /\ customFrequency' = EmptyString
       ELSE LET parsedValue == parseInt(value)
            IN IF ~parsedValue.nan /\ includes(fixedFrequencies, parsedValue.val)
                 THEN frequency' = parsedValue.val /\ customFrequency' = EmptyString
                 ELSE UNCHANGED <<frequency, customFrequency>>
  /\ UNCHANGED <<intensity, laterality, stimulusType, presentationMode, automaticDuration>>

\* lines 615-621
handleCustomFrequencyChange(value) ==
  /\ PanelEdit("handleCustomFrequencyChange")
  /\ ~includes(fixedFrequencies, frequency)      \* line 779: the input is shown
  /\ IF value = EmptyString
          \/ (AllDigits(value) /\ parseInt(value).val >= 100 /\ parseInt(value).val <= 10000)
       THEN customFrequency' = value /\ frequency' = 0
       ELSE UNCHANGED <<frequency, customFrequency>>
  /\ UNCHANGED <<intensity, laterality, stimulusType, presentationMode, automaticDuration>>

Clamp(lo, x, hi) == IF x < lo THEN lo ELSE IF x > hi THEN hi ELSE x

\* lines 623-653, behind the disabled conditions of lines 753 and 774
adjustFrequency(delta) ==
  /\ PanelEdit("adjustFrequency")
  /\ ~isFrequencyInvalid
  /\ IF delta < 0 THEN currentFrequency > 100 ELSE currentFrequency < 10000
  /\ IF frequency # 0 /\ includes(fixedFrequencies, frequency)
       THEN LET newIndex == indexOf(fixedFrequencies, frequency) + delta
            IN IF newIndex >= 1 /\ newIndex <= Len(fixedFrequencies)
                 THEN frequency' = fixedFrequencies[newIndex] /\ customFrequency' = EmptyString
                 ELSE IF newIndex < 1
                   THEN /\ frequency' = 0
                        /\ customFrequency' =
                             String(IF fixedFrequencies[1] + delta * 50 < 100
                                      THEN 100 ELSE fixedFrequencies[1] + delta * 50)
                   ELSE /\ frequency' = 0
                        /\ customFrequency' =
                             String(IF fixedFrequencies[Len(fixedFrequencies)] + delta * 50 > 10000
                                      THEN 10000
                                      ELSE fixedFrequencies[Len(fixedFrequencies)] + delta * 50)
       ELSE LET newFreq == (IF customFrequency = EmptyString THEN 1000
                            ELSE parseFloat(customFrequency)) + delta * 50
            IN /\ frequency' = 0
               /\ customFrequency' = String(Clamp(100, newFreq, 10000))
  /\ UNCHANGED <<intensity, laterality, stimulusType, presentationMode, automaticDuration>>

\* lines 655-660, behind the disabled conditions of lines 803 and 828
adjustIntensity(delta) ==
  /\ PanelEdit("adjustIntensity")
  /\ IF delta < 0 THEN intensity > -10 ELSE intensity < 100
  /\ intensity' = Clamp(-10, intensity + delta, 100)
  /\ UNCHANGED <<frequency, customFrequency, laterality, stimulusType, presentationMode,
                 automaticDuration>>

\* lines 662-664: the slider (min -10, max 100, step 1)
handleIntensityChange(value) ==
  /\ PanelEdit("handleIntensityChange")
  /\ value \in -10..100
  /\ intensity' = value
  /\ UNCHANGED <<frequency, customFrequency, laterality, stimulusType, presentationMode,
                 automaticDuration>>

\* lines 666-671
handleIntensityInputChange(str) ==
  /\ PanelEdit("handleIntensityInputChange")
  /\ LET value == parseInt(str)
     IN IF ~value.nan /\ value.val >= -10 /\ value.val <= 100
          THEN intensity' = value.val
          ELSE UNCHANGED intensity
  /\ UNCHANGED <<frequency, customFrequency, laterality, stimulusType, presentationMode,
                 automaticDuration>>

\* line 911: the tone button is disabled
toneButtonDisabled == ~rendered.isReady \/ isFrequencyInvalid

\* line 912: onMouseDown of the tone button
onMouseDown ==
  /\ ~toneButtonDisabled
  /\ presentationMode = "manual"
  /\ startTone(settings)
  /\ pressed' = pressed \cup {"mouse"}

\* line 913: onMouseUp of the tone button
onMouseUp ==
  /\ ~toneButtonDisabled
  /\ presentationMode = "manual"
  /\ StopToneCall
  /\ pressed' = pressed \ {"mouse"}

\* what a handler of the tone control leaves alone when it calls neither
\* onStartTone nor onStopTone
PressFrame ==
  UNCHANGED <<ctxVars, isReady, isPlaying, rendered, toneRefs, graphVars, timers, noiseVars,
              micVars, panelVars, pageVars, toneHist, noiseHist, err>>

\* the mouse button is released while the pointer is no longer over the tone
\* button: the mouseup event goes to another element and no handler of the
\* panel runs
mouseUpElsewhere ==
  /\ "mouse" \in pressed
  /\ pressed' = pressed \ {"mouse"}
  /\ op' = MkOp("mouseUpElsewhere", NoSettings, 0, oscillatorRef # Null)
  /\ PressFrame

\* line 915: onTouchStart of the tone button
onTouchStart ==
  /\ ~toneButtonDisabled
  /\ presentationMode = "manual"
  /\ startTone(settings)
  /\ pressed' = pressed \cup {"touch"}

\* line 916: onTouchEnd of the tone button (a touch keeps the element it
\* began on as its target)
onTouchEnd ==
  /\ "touch" \in pressed
  /\ pressed' = pressed \ {"touch"}
  /\ IF ~toneButtonDisabled /\ presentationMode = "manual"
       THEN StopToneCall
       ELSE op' = MkOp("onTouchEnd", NoSettings, 0, oscillatorRef # Null) /\ PressFrame

\* line 914: onClick of the tone button
onClick ==
  /\ ~toneButtonDisabled
  /\ presentationMode = "automatic"
  /\ IF rendered.isPlaying THEN StopToneCall ELSE startTone(settings)
  /\ UNCHANGED pressed

\* lines 691-700: keydown of Space or Escape on the document (also every
\* repeat while the key is held), once the once-listener of the hook for
\* keydown is gone
handleKeyDown ==
  /\ "keydown" \notin listeners
  /\ pressed' = pressed \cup {"key"}
  /\ IF ~rendered.isPlaying /\ rendered.isReady /\ presentationMode = "manual"
       THEN startTone(settings)
       ELSE op' = MkOp("handleKeyDown", NoSettings, 0, oscillatorRef # Null) /\ PressFrame

\* lines 702-707: keyup of Space or Escape on the document
handleKeyUp ==
  /\ "key" \in pressed
  /\ pressed' = pressed \ {"key"}
  /\ IF rendered.isPlaying /\ presentationMode = "manual"
       THEN StopToneCall
       ELSE op' = MkOp("handleKeyUp", NoSettings, 0, oscillatorRef # Null) /\ PressFrame

\* line 857 (and the key shortcuts of lines 697-699)
setLaterality(value) ==
  /\ PanelEdit("setLaterality")
  /\ laterality' = value
  /\ UNCHANGED <<frequency, customFrequency, intensity, stimulusType, presentationMode,
                 automaticDuration>>

\* line 838
setStimulusType(value) ==
  /\ PanelEdit("setStimulusType")
  /\ stimulusType' = value
  /\ UNCHANGED <<frequency, customFrequency, intensity, laterality, presentationMode,
                 automaticDuration>>

\* line 876
setPresentationMode(value) ==
  /\ PanelEdit("setPresentationMode")
  /\ presentationMode' = value
  /\ UNCHANGED <<frequency, customFrequency, intensity, laterality, stimulusType,
                 automaticDuration>>

\* ------------------------------------------------------------------- page
\* part_000 line 99: Object.keys(initialThresholds).map(Number)
pageFixedFrequencies == DOMAIN initialThresholds

\* handleThresholdChange without the spread of prev[frequency]
handleThresholdChange_DropsOtherEar(T, freq, ear, value) ==
  [f \in DOMAIN T \cup {freq} |->
     IF f = freq THEN [[right |-> Undefined, left |-> Undefined] EXCEPT ![ear] = value]
     ELSE T[f]]

\* part_000 lines 65-73: the updater handed to setThresholds, applied to
\* table T
handleThresholdChange(T, freq, ear, value) ==
  LET prev == IF freq \in DOMAIN T THEN T[freq]
              ELSE [right |-> Undefined, left |-> Undefined]
  IN [f \in DOMAIN T \cup {freq} |->
        IF f = freq THEN [prev EXCEPT ![ear] = value] ELSE T[f]]

PageFrame ==
  UNCHANGED <<ctxVars, isReady, isPlaying, rendered, toneRefs, graphVars, timers, noiseVars,
              micVars, panelVars, pressed, toneHist, noiseHist, err>>

\* handleSaveResult without the test of fixedFrequencies
handleSaveResult_NoCheck(freq, level, lat) ==
  /\ saves < MaxSaves
  /\ saves' = saves + 1
  /\ LET t1 == IF lat \in {"right", "binaural"}
                 THEN handleThresholdChange(thresholds, freq, "right", level) ELSE thresholds
         t2 == IF lat \in {"left", "binaural"}
                 THEN handleThresholdChange(t1, freq, "left", level) ELSE t1
     IN thresholds' = t2 /\ toast' = "success"
  /\ op' = MkOp("saveThreshold", MkSettings(freq, level, lat, "none", "none", 0), 0, FALSE)
  /\ PageFrame

\* part_000 lines 75-88: saveThreshold(frequency, intensity, laterality); the
\* two updaters it queues run in order on the table
handleSaveResult(freq, level, lat) ==
  /\ saves < MaxSaves
  /\ saves' = saves + 1
  /\ IF freq \notin pageFixedFrequencies
       THEN toast' = "error" /\ UNCHANGED thresholds
       ELSE LET t1 == IF lat \in {"right", "binaural"}
                        THEN handleThresholdChange(thresholds, freq, "right", level)
                        ELSE thresholds
                t2 == IF lat \in {"left", "binaural"}
                        THEN handleThresholdChange(t1, freq, "left", level) ELSE t1
            IN thresholds' = t2 /\ toast' = "success"
  /\ op' = MkOp("saveThreshold", MkSettings(freq, level, lat, "none", "none", 0), 0, FALSE)
  /\ PageFrame

\* PatientForm.tsx lines 506-517: ThresholdInputTable.handleInputChange, the
\* onChange of a cell of the thresholds table, with e.target.value = str
handleInputChange(freq, ear, str) ==
  /\ saves < MaxSaves
  /\ saves' = saves + 1
  /\ LET value == parseInt(str)
     IN IF str = EmptyString
          THEN thresholds' = handleThresholdChange(thresholds, freq, ear, NoThreshold)
          ELSE IF ~value.nan /\ value.val >= -10 /\ value.val <= 110
                 THEN thresholds' = handleThresholdChange(thresholds, freq, ear, value.val)
                 ELSE UNCHANGED thresholds
  /\ UNCHANGED toast
  /\ op' = MkOp("handleInputChange", NoSettings, 0, FALSE)
  /\ PageFrame

\* PatientForm.tsx lines 922-923: onClick of the save button, which is
\* disabled when !isReady || isFrequencyInvalid || currentFrequency === 0
onSaveClick ==
  /\ ~(~rendered.isReady \/ isFrequencyInvalid \/ currentFrequency = 0)
  /\ handleSaveResult(currentFrequency, intensity, laterality)

\* ------------------------------------------------------------------- time
AgeCap == 2 * MsPerSecond + FADE_TIME + 1

Pending ==
  {t.rem : t \in timers}
    \cup {nodes[n].stopIn : n \in {m \in DOMAIN nodes : nodes[m].stopIn >= 0}}
    \cup {nodes[n].rampIn : n \in {m \in DOMAIN nodes : nodes[m].rampIn >= 0}}

AdvanceNode(nd, d) ==
  LET s1 == IF nd.stopIn >= 0
              THEN IF nd.stopIn - d = 0
                     THEN [nd EXCEPT !.run = "stopped", !.stopIn = -1]
                     ELSE [nd EXCEPT !.stopIn = nd.stopIn - d]
              ELSE nd
  IN IF s1.rampIn >= 0
       THEN IF s1.rampIn - d = 0
              THEN [s1 EXCEPT !.val = s1.rampTo, !.rampIn = -1]
              ELSE [s1 EXCEPT !.rampIn = s1.rampIn - d]
       ELSE s1

\* the clock moves to the next deadline, or by MaxAdvance if that comes first
Advance ==
  /\ Pending # {} \/ (oscillatorRef # Null /\ toneAge < AgeCap)
  /\ LET d == SetMin(Pending \cup {MaxAdvance})
     IN /\ d > 0
        /\ nodes' = [n \in DOMAIN nodes |-> AdvanceNode(nodes[n], d)]
        /\ timers' = {[t EXCEPT !.rem = t.rem - d] : t \in timers}
        /\ toneAge' = IF oscillatorRef # Null THEN Min(toneAge + d, AgeCap) ELSE toneAge
  /\ op' = MkOp("advance", NoSettings, 0, oscillatorRef # Null)
  /\ UNCHANGED <<ctxVars, isReady, isPlaying, rendered, toneRefs, edges, toneSid, sessions,
                 noiseVars, noiseHist, panelVars, pageVars, pressed, micVars, err>>

\* ---------------------------------------------------------- specification
Init ==
  /\ audioContextRef = Null
  /\ ctxState = "none"
  /\ initResume = "none"
  /\ listeners = {"click", "keydown"}
  /\ mounted = TRUE
  /\ contexts = 0
  /\ isReady = FALSE
  /\ isPlaying = FALSE
  /\ rendered = [isReady |-> FALSE, isPlaying |-> FALSE, loadedNoiseBuffers |-> {},
                 isMicrophoneActive |-> FALSE, microphonePermissionGranted |-> FALSE,
                 selectedMicrophoneId |-> NullId]
  /\ oscillatorRef = Null
  /\ gainNodeRef = Null
  /\ pannerNodeRef = Null
  /\ warbleLfoRef = Null
  /\ pulsedLfoRef = Null
  /\ nodes = << >>
  /\ edges = {}
  /\ timers = {}
  /\ loadedNoiseBuffers = {}
  /\ backgroundNoiseSourceRef = Null
  /\ backgroundNoiseGainRef = Null
  /\ isBackgroundNoiseActive = FALSE
  /\ noiseCalls = {}
  /\ noiseIssued = 0
  /\ fetches = [t \in NoiseKeys |-> 0]
  /\ decodes = [t \in NoiseKeys |-> 0]
  /\ InitMicrophone
  /\ frequency = 1000
  /\ customFrequency = << >>
  /\ intensity = 50
  /\ laterality = "binaural"
  /\ stimulusType = "pure"
  /\ presentationMode = "manual"
  /\ automaticDuration = 2
  /\ panelEdits = 0
  /\ pressed = {}
  /\ thresholds = initialThresholds
  /\ toast = "none"
  /\ saves = 0
  /\ toneSid = 0
  /\ toneAge = 0
  /\ sessions = << >>
  /\ op = MkOp("init", NoSettings, 0, FALSE)
  /\ err = FALSE

Next ==
  \/ \E kind \in {"click", "keydown"} : initAudioContext(kind)
  \/ \E ok \in BOOLEAN : initResumeSettled(ok)
  \/ Render
  \/ \E args \in ToneInputs : startTone(args) /\ UNCHANGED pressed
  \/ StopToneCall /\ UNCHANGED pressed
  \/ TimerFire
  \/ Advance

Spec == Init /\ [][Next]_vars

NextNoise ==
  \/ \E kind \in {"click", "keydown"} : initAudioContext(kind)
  \/ \E ok \in BOOLEAN : initResumeSettled(ok)
  \/ Render
  \/ \E noiseType \in NoiseTypes, volume \in NoiseVolumes : startBackgroundNoise(noiseType, volume)
  \/ \E call \in noiseCalls, ok \in BOOLEAN : noiseResumeSettled(call, ok)
  \/ \E call \in noiseCalls, ok \in BOOLEAN : noiseLoadSettled(call, ok)
  \/ StopBackgroundNoiseCall

SpecNoise == Init /\ [][NextNoise]_vars

\* values offered by the frequency select, and strings typed into the inputs
SelectValues == {CustomValue, <<1, 2, 5>>, <<8, 0, 0, 0>>}
TypedFrequencies ==
  {EmptyString, <<9, 9>>, <<1, 0, 0>>, <<1, 3, 7>>, <<1, 0, 0, 0, 0>>, <<1, 0, 0, 0, 1>>,
   <<1, 2, Dot, 5>>}
SliderValues == {-10, 85, 100}
TypedIntensities == {EmptyString, <<Minus, 1, 1>>, <<Minus, 1, 0>>, <<1, 0, 1>>, <<3, 0>>}

\* the page after the first click: the context runs and ready was rendered
InitPanel ==
  /\ audioContextRef = 1
  /\ ctxState = "running"
  /\ initResume = "resolved"
  /\ listeners = {"keydown"}
  /\ mounted = TRUE
  /\ contexts = 1
  /\ isReady = TRUE
  /\ isPlaying = FALSE
  /\ rendered = [isReady |-> TRUE, isPlaying |-> FALSE, loadedNoiseBuffers |-> {},
                 isMicrophoneActive |-> FALSE, microphonePermissionGranted |-> FALSE,
                 selectedMicrophoneId |-> NullId]
  /\ oscillatorRef = Null
  /\ gainNodeRef = Null
  /\ pannerNodeRef = Null
  /\ warbleLfoRef = Null
  /\ pulsedLfoRef = Null
  /\ nodes = << >>
  /\ edges = {}
  /\ timers = {}
  /\ loadedNoiseBuffers = {}
  /\ backgroundNoiseSourceRef = Null
  /\ backgroundNoiseGainRef = Null
  /\ isBackgroundNoiseActive = FALSE
  /\ noiseCalls = {}
  /\ noiseIssued = 0
  /\ fetches = [t \in NoiseKeys |-> 0]
  /\ decodes = [t \in NoiseKeys |-> 0]
  /\ InitMicrophone
  /\ frequency = 1000
  /\ customFrequency = << >>
  /\ intensity = 50
  /\ laterality = "binaural"
  /\ stimulusType = "pure"
  /\ presentationMode = "manual"
  /\ automaticDuration = 2
  /\ panelEdits = 0
  /\ pressed = {}
  /\ thresholds = initialThresholds
  /\ toast = "none"
  /\ saves = 0
  /\ toneSid = 0
  /\ toneAge = 0
  /\ sessions = << >>
  /\ op = MkOp("render", NoSettings, 0, FALSE)
  /\ err = FALSE

\* the ready page of a browser that had the microphone permission granted
\* before the page was opened: the query of the mount effect has answered,
\* the devices were enumerated and the first one was selected and rendered
InitSessions ==
  /\ audioContextRef = 1
  /\ ctxState = "running"
  /\ initResume = "resolved"
  /\ listeners = {"keydown"}
  /\ mounted = TRUE
  /\ contexts = 1
  /\ isReady = TRUE
  /\ isPlaying = FALSE
  /\ rendered = [isReady |-> TRUE, isPlaying |-> FALSE, loadedNoiseBuffers |-> {},
                 isMicrophoneActive |-> FALSE, microphonePermissionGranted |-> TRUE,
                 selectedMicrophoneId |-> "mic1"]
  /\ oscillatorRef = Null
  /\ gainNodeRef = Null
  /\ pannerNodeRef = Null
  /\ warbleLfoRef = Null
  /\ pulsedLfoRef = Null
  /\ nodes = << >>
  /\ edges = {}
  /\ timers = {}
  /\ loadedNoiseBuffers = {}
  /\ backgroundNoiseSourceRef = Null
  /\ backgroundNoiseGainRef = Null
  /\ isBackgroundNoiseActive = FALSE
  /\ noiseCalls = {}
  /\ noiseIssued = 0
  /\ fetches = [t \in NoiseKeys |-> 0]
  /\ decodes = [t \in NoiseKeys |-> 0]
  /\ mediaStreamRef = Null
  /\ microphoneSourceRef = Null
  /\ microphoneGainRef = Null
  /\ isMicrophoneActive = FALSE
  /\ microphoneVolume = 50
  /\ microphoneDevices = <<"mic1", "mic2">>
  /\ selectedMicrophoneId = "mic1"
  /\ microphonePermissionGranted = TRUE
  /\ permission = "granted"
  /\ permissionStatus = "watching"
  /\ streams = << >>
  /\ micCalls = {}
  /\ micIssued = 1
  /\ permissionChanges = 0
  /\ frequency = 1000
  /\ customFrequency = << >>
  /\ intensity = 50
  /\ laterality = "binaural"
  /\ stimulusType = "pure"
  /\ presentationMode = "manual"
  /\ automaticDuration = 2
  /\ panelEdits = 0
  /\ pressed = {}
  /\ thresholds = initialThresholds
  /\ toast = "none"
  /\ saves = 0
  /\ toneSid = 0
  /\ toneAge = 0
  /\ sessions = << >>
  /\ op = MkOp("render", NoSettings, 0, FALSE)
  /\ err = FALSE

\* the settings of the tones started before the page is left
UnmountToneInputs ==
  { MkSettings(1000, 50, "binaural", "pure", "automatic", 1),
    MkSettings(2000, 70, "left", "pulsed", "manual", 2) }

\* the page is left (the component unmounts) while a tone may be playing:
\* the user interface acts only while the component is mounted, timers and
\* the clock also afterwards
NextUnmount ==
  \/ mounted /\ \E args \in UnmountToneInputs : startTone(args) /\ UNCHANGED pressed
  \/ mounted /\ StopToneCall /\ UNCHANGED pressed
  \/ TimerFire
  \/ Advance
  \/ unmount

SpecUnmount == InitPanel /\ [][NextUnmount]_vars

\* the settings of the tones played next to noise and microphone
SessionToneInputs ==
  { MkSettings(1000, 50, "right", "pure", "manual", 2),
    MkSettings(500, 40, "left", "warble", "manual", 2),
    MkSettings(2000, 50, "binaural", "pulsed", "manual", 2) }

\* tone, background noise and microphone monitor used side by side; the tone
\* graphs built and the asynchronous noise and microphone calls made are
\* counted against MaxStarted
NextSessions ==
  \/ Render
  \/ toneSid + noiseIssued + micIssued < MaxStarted /\ \E args \in SessionToneInputs : startTone(args) /\ UNCHANGED pressed
  \/ StopToneCall /\ UNCHANGED pressed
  \/ toneSid + noiseIssued + micIssued < MaxStarted /\ \E volume \in NoiseVolumes : startBackgroundNoise("mall", volume)
  \/ \E call \in noiseCalls, ok \in BOOLEAN : noiseLoadSettled(call, ok)
  \/ StopBackgroundNoiseCall
  \/ toneSid + noiseIssued + micIssued < MaxStarted /\ \E volume \in StartVolumes : startMicrophone(volume)
  \/ \E call \in micCalls, ok \in BOOLEAN : startSettled(call, ok)
  \/ \E volume \in MicVolumes : setMicrophoneVolume(volume)
  \/ StopMicrophoneCall

SpecSessions == InitSessions /\ [][NextSessions]_vars

\* arguments of saveThreshold calls made directly
SaveFrequencies == {1000, 137}
SaveLevels == {30}

\* the page: thresholds saved from the control panel and by direct calls
\* texts typed into a cell of the thresholds table: '', 'x', '40', '111',
\* '-11' and '110.5'
TypedThresholds ==
  {EmptyString, <<12>>, <<4, 0>>, <<1, 1, 1>>, <<Minus, 1, 1>>, <<1, 1, 0, Dot, 5>>}

NextThresholds ==
  \/ \E value \in SelectValues : handleFrequencyChange(value)
  \/ \E value \in TypedFrequencies : handleCustomFrequencyChange(value)
  \/ \E value \in Lateralities : setLaterality(value)
  \/ onSaveClick
  \/ \E freq \in SaveFrequencies, level \in SaveLevels, lat \in Lateralities :
       handleSaveResult(freq, level, lat)
  \/ \E ear \in {"right", "left"}, str \in TypedThresholds :
       handleInputChange(1000, ear, str)

SpecThresholds == InitPanel /\ [][NextThresholds]_vars

\* the tone control used by mouse, touch and keyboard
NextPress ==
  \/ initAudioContext("keydown")
  \/ \E value \in Lateralities : setLaterality(value)
  \/ \E value \in StimulusTypes : setStimulusType(value)
  \/ \E value \in PresentationModes : setPresentationMode(value)
  \/ onMouseDown
  \/ onMouseUp
  \/ mouseUpElsewhere
  \/ onTouchStart
  \/ onTouchEnd
  \/ handleKeyDown
  \/ handleKeyUp
  \/ onClick

SpecPress == InitPanel /\ [][NextPress]_vars

NextPanel ==
  \/ \E value \in SelectValues : handleFrequencyChange(value)
  \/ \E value \in TypedFrequencies : handleCustomFrequencyChange(value)
  \/ \E delta \in {-1, 1} : adjustFrequency(delta)
  \/ \E delta \in {-5, 5} : adjustIntensity(delta)
  \/ \E value \in SliderValues : handleIntensityChange(value)
  \/ \E str \in TypedIntensities : handleIntensityInputChange(str)
  \/ onMouseDown
  \/ onMouseUp

SpecPanel == InitPanel /\ [][NextPanel]_vars

\* the intensity slider (PatientForm.tsx lines 808-815: -10..100 in steps of
\* 1) and a press of the tone button that is held: every intensity the panel
\* offers is given to dbToGain
NextGain ==
  \/ \E value \in -10..100 : handleIntensityChange(value)
  \/ onMouseDown

SpecGain == InitPanel /\ [][NextGain]_vars

\* the microphone monitor and the permission, on the page after the first click
NextMic ==
  \/ Render
  \/ permissionQuerySettled
  \/ \E state \in {"prompt", "granted", "denied"} : permissionChange(state)
  \/ requestMicrophonePermission
  \/ \E call \in micCalls, ok \in BOOLEAN : requestSettled(call, ok)
  \/ \E call \in micCalls, ok \in BOOLEAN, inputs \in EnumeratedInputs :
       enumerateSettled(call, ok, inputs)
  \/ \E id \in {"mic2"} : setSelectedMicrophoneId(id)
  \/ \E volume \in MicVolumes : setMicrophoneVolume(volume)
  \/ \E volume \in StartVolumes : startMicrophone(volume)
  \/ \E call \in micCalls, ok \in BOOLEAN : micResumeSettled(call, ok)
  \/ \E call \in micCalls, ok \in BOOLEAN : startSettled(call, ok)
  \/ StopMicrophoneCall
  \/ contextInterrupted

SpecMic == InitPanel /\ [][NextMic]_vars

\* ------------------------------------------------------------ graph facts
ToneRoles ==
  {"oscillator", "gain", "panner", "warbleLfo", "gainLfo",
   "pulseLfo", "pulseGain", "gainModulator", "offsetGain"}

RECURSIVE ReachFrom(_)
ReachFrom(S) ==
  LET nxt == S \cup {e.dst : e \in {x \in edges : x.src \in S /\ x.port # "destination"}}
  IN IF nxt = S THEN S ELSE ReachFrom(nxt)

ReachesSink(n) == \E e \in edges : e.port = "destination" /\ e.src \in ReachFrom({n})

\* tone sessions whose oscillator is running and has a path to the sink
LiveToneSessions ==
  {nodes[n].sid : n \in {m \in DOMAIN nodes :
      nodes[m].role = "oscillator" /\ nodes[m].run = "running" /\ ReachesSink(m)}}

\* running noise sources that have a path to the sink
LiveNoiseSources ==
  {n \in DOMAIN nodes :
     nodes[n].role = "noiseSource" /\ nodes[n].run = "running" /\ ReachesSink(n)}

PlayingSettings == sessions[toneSid]

\* the graph held by refs o, g, p in node table N was built from settings args
BuiltFrom(o, g, p, N, args) ==
  /\ o # Null
  /\ N[o].val = args.frequency * Scale
  /\ N[g].rampTo = dbToGain(args.intensity)
  /\ N[p].val = panValue(args.laterality)

PlaysWith(args) == BuiltFrom(oscillatorRef, gainNodeRef, pannerNodeRef, nodes, args)

\* line 394-397: a square oscillator of period 400 ms started with the tone
\* puts out +1 for 200 ms, then -1 for 200 ms; past the age the clock keeps,
\* either.  In thousandths.
pulsePeriod == 400

squareWave(age) ==
  IF age >= AgeCap THEN {Scale, -Scale}
  ELSE IF age % pulsePeriod < pulsePeriod \div 2 THEN {Scale} ELSE {-Scale}

\* the signal node n puts out when the pulse oscillator puts out lfo: an
\* oscillator puts out its wave while it runs, a gain node its summed input
\* times its gain, and a node without input is silent
RECURSIVE output(_, _), inputSum(_, _, _)
output(n, lfo) ==
  IF nodes[n].role = "pulseLfo"
    THEN IF nodes[n].run = "running" THEN lfo ELSE 0
    ELSE (inputSum({e \in edges : e.dst = n /\ e.port = "input"}, lfo, 0) * nodes[n].val)
           \div Scale

inputSum(E, lfo, acc) ==
  IF E = {} THEN acc
  ELSE LET e == CHOOSE x \in E : TRUE
       IN inputSum(E \ {e}, lfo, acc + output(e.src, lfo))

\* lines 411-412: the value of gainNode.gain the oscillator is scaled by, which
\* is the parameter's own scheduled value plus every signal connected to it
computedGain(g, lfo) ==
  nodes[g].val + inputSum({e \in edges : e.dst = g /\ e.port = "gain"}, lfo, 0)

EnvelopeGains == {computedGain(gainNodeRef, lfo) : lfo \in squareWave(toneAge)}

\* ------------------------------------------------------------------ claims
\* C1: in every reachable state at most one tone oscillator graph is alive
\* (oscillator running) and connected to the output sink.
C1_AtMostOneToneGraph == Cardinality(LiveToneSessions) <= 1

\* C1 witness: a second graph plays while the oscillator of the first is
\* still running, cut off from the sink
C1_Witness ==
  /\ toneSid = 2
  /\ LiveToneSessions = {2}
  /\ \E n \in DOMAIN nodes :
       nodes[n].role = "oscillator" /\ nodes[n].sid = 1 /\ nodes[n].run = "running"

C3_AtMostOneNoiseSource == Cardinality(LiveNoiseSources) <= 1

\* C4: stopTone called when no tone is active changes neither isPlaying nor
\* any node reference (nor anything else) and raises no error.
C4_StopWhenIdleIsNoOp ==
  [][(op'.name = "stopTone" /\ oscillatorRef = Null) =>
       (UNCHANGED <<toneRefs, graphVars, timers, isPlaying, isReady, rendered, ctxVars,
                    noiseVars>>
        /\ err' = FALSE)]_vars

\* C4 witness: stopTone was called on an idle controller that had played before
C4_Witness ==
  /\ op.name = "stopTone"
  /\ ~op.wasActive
  /\ toneSid >= 1
  /\ oscillatorRef = Null
  /\ ~err

\* C5 (as stated): after startTone then stopTone isPlaying is false and no
\* node of that tone session remains connected to the sink, to another
\* node's input or to a parameter.
C5_NoDanglingNodes ==
  (op.name = "stopTone" /\ op.wasActive) =>
     /\ ~isPlaying
     /\ {e \in edges : nodes[e.src].role \in ToneRoles /\ nodes[e.src].sid = op.sid} = {}

\* C6 (as stated): while the stop of an oscillator is still ahead (the fade
\* window has not ended) the oscillator still feeds its envelope gain, and a
\* modulator is stopped no earlier than the oscillator of its session.
C6_OscillatorFeedsEnvelopeUntilFadeEnd ==
  /\ \A n \in DOMAIN nodes :
       (nodes[n].role = "oscillator" /\ nodes[n].stopIn > 0) =>
          \E e \in edges : e.src = n /\ e.port = "input" /\ nodes[e.dst].role = "gain"
  /\ \A m \in DOMAIN nodes :
       (nodes[m].role \in {"warbleLfo", "pulseLfo"} /\ nodes[m].run = "stopped") =>
          \A n \in DOMAIN nodes :
            (nodes[n].role = "oscillator" /\ nodes[n].sid = nodes[m].sid) =>
               nodes[n].run = "stopped"

\* C7 (as stated): startTone with a frequency outside [100,10000] or an
\* intensity outside [-10,100] builds no node, sets no timer and leaves
\* isPlaying alone, whatever control-panel operations preceded the press.
C7_OutOfRangeStartRejected ==
  [][LET OutOfRange(args) ==
           \/ args.frequency < 100
           \/ args.frequency > 10000
           \/ args.intensity < -10
           \/ args.intensity > 100
     IN (op'.name = "startTone" /\ OutOfRange(op'.settings)) =>
            UNCHANGED <<toneRefs, graphVars, timers, isPlaying>>]_vars

\* C8 (as stated): while isReady is false a start operation, with the steps
\* that complete it, builds no graph and changes no session state or flag.
C8_NotReadyStartIsNoOp ==
  [][(~isReady /\ op'.name \in {"startTone", "startBackgroundNoise",
                               "noiseResumeSettled", "noiseLoadSettled"}) =>
       UNCHANGED <<toneRefs, noiseRefs, graphVars, timers, isPlaying,
                   isBackgroundNoiseActive>>]_vars

\* C9 (as stated): a tone started in automatic mode with duration D that is
\* not stopped by a stopTone call goes from playing to not playing no earlier
\* than D and no later than D + FADE_TIME after its start.
C9_AutomaticStopsWithinWindow ==
  [][(isPlaying /\ ~isPlaying' /\ op'.name # "stopTone"
        /\ PlayingSettings.presentationMode = "automatic") =>
       /\ toneAge >= PlayingSettings.automaticDuration * MsPerSecond
       /\ toneAge <= PlayingSettings.automaticDuration * MsPerSecond + FADE_TIME]_vars

\* C10 (as stated): the timer of a session that is no longer the playing one
\* changes no state when it fires and raises no error.
C10_StaleTimerChangesNothing ==
  [][(op'.name = "timer" /\ ~(oscillatorRef # Null /\ toneSid = op'.sid)) =>
       (UNCHANGED <<toneRefs, graphVars, isPlaying>> /\ err' = FALSE)]_vars

\* C11 (as stated): while a pulsed tone with target gain T plays, the gain the
\* envelope applies to the oscillator (the gain parameter's scheduled value
\* plus everything connected to that parameter) is never negative and never
\* exceeds T.
C11_PulsedGainWithinTarget ==
  (oscillatorRef # Null /\ pulsedLfoRef # Null) =>
    \A v \in EnvelopeGains : 0 <= v /\ v <= dbToGain(PlayingSettings.intensity)

\* C12 (as stated): when the fetch or decode of a startBackgroundNoise call
\* fails, a noise session that played before the call still plays afterwards
\* (same source, running, connected to the sink) and isBackgroundNoiseActive
\* is as it was.
C12_LoadFailureKeepsPriorNoise ==
  [][LET \* the step ends call c without a buffer: its fetch or decode failed
         LoadFailed(c) ==
           /\ c \in noiseCalls /\ c.pc = "fetch" /\ c.id = op'.sid
           /\ op'.name = "noiseLoadSettled"
           /\ c \notin noiseCalls'
           /\ nodes' = nodes
     IN \A c \in noiseCalls :
            (LoadFailed(c) /\ c.prior # Null) =>
              (/\ backgroundNoiseSourceRef' = c.prior
               /\ isBackgroundNoiseActive'
               /\ nodes'[c.prior].run = "running"
               /\ \E e \in edges' : e.src = c.prior)]_vars

\* C13 (as stated): over any sequence of startBackgroundNoise calls, also
\* overlapping ones, the asset of each noise type is fetched and decoded at
\* most once.
C13_DecodeOncePerType == \A t \in NoiseKeys : decodes[t] <= 1

\* capture tracks that still run, as (stream, track) pairs
LiveTracks ==
  {<<s, i>> \in (DOMAIN streams) \X {1} : streams[s].tracks[i] = "live"}

\* microphone nodes that still have an outgoing connection
ConnectedMicNodes ==
  {n \in DOMAIN nodes : nodes[n].role \in {"micSource", "micGain"} /\ \E e \in edges : e.src = n}

\* C14 (as stated): when the permission changes to a non-granted state while
\* the microphone is active, then once the notification is handled
\* microphonePermissionGranted and isMicrophoneActive are false, every capture
\* track is stopped and no microphone node is connected.
C14_RevocationStopsMonitor ==
  [][(op'.name = "permissionChange" /\ permissionStatus = "watching"
        /\ permission' # "granted" /\ isMicrophoneActive) =>
       (/\ ~microphonePermissionGranted'
        /\ ~isMicrophoneActive'
        /\ LiveTracks' = {}
        /\ ConnectedMicNodes' = {})]_vars

\* C15 (as stated): no step of startMicrophone (its entry, or what it does
\* once an await has answered) acquires a capture stream, creates a node or
\* changes a flag when the context is not ready, the microphone is already
\* active, permission is not granted or no device is selected.
C15_StartMicrophoneGuarded ==
  [][(op'.name \in {"startMicrophone", "micResumeSettled", "startSettled"}
        /\ (\/ ~isReady \/ audioContextRef = Null
            \/ isMicrophoneActive
            \/ ~microphonePermissionGranted
            \/ falsy(selectedMicrophoneId))) =>
       UNCHANGED <<micRefs, streams, graphVars, micState>>]_vars

\* every variable but op, the error flag included
AllButOp ==
  <<ctxVars, isReady, isPlaying, rendered, toneRefs, graphVars, timers, noiseVars, micVars,
    panelVars, pageVars, pressed, toneHist, noiseHist, err>>

C17_MuteOffered ==
  isMicrophoneActive =>
    {"toggleMicrophoneMute", "isMicrophoneMuted"} \subseteq ReturnedInterface

\* C18: a microphone volume update while the microphone is active changes
\* only the value of the existing gain node, to the gain of the new volume:
\* the capture stream, the source node, the identity of the gain node, the
\* connections and isMicrophoneActive are unchanged and no node is created.
C18_VolumeUpdateOnlySetsGain ==
  [][(op'.name = "setMicrophoneVolume" /\ isMicrophoneActive) =>
       (/\ UNCHANGED <<micRefs, streams, edges, isMicrophoneActive>>
        /\ Len(nodes') = Len(nodes)
        /\ \A n \in DOMAIN nodes :
             nodes'[n] = IF n = microphoneGainRef /\ microphoneVolume' # microphoneVolume
                           THEN [nodes[n] EXCEPT !.val = dbToGain(microphoneVolume'),
                                                 !.rampTo = dbToGain(microphoneVolume')]
                           ELSE nodes[n])]_vars

\* C18 witness: the volume was set to 40 dB while a monitor started at 50 dB
\* was active, and its gain node now holds the gain of 40 dB
C18_Witness ==
  /\ op.name = "setMicrophoneVolume"
  /\ op.wasActive
  /\ isMicrophoneActive
  /\ microphoneVolume = 40
  /\ nodes[microphoneGainRef].val = dbToGain(40)
  /\ dbToGain(40) # dbToGain(50)

\* C19: stopBackgroundNoise stops and disconnects the noise source and the
\* gain, clears both references and sets isBackgroundNoiseActive to false;
\* called when no noise is active it changes nothing and raises no error.
C19_StopBackgroundNoiseReleases ==
  [][op'.name = "stopBackgroundNoise" =>
       (/\ backgroundNoiseSourceRef' = Null /\ backgroundNoiseGainRef' = Null
        /\ ~isBackgroundNoiseActive'
        /\ backgroundNoiseSourceRef # Null => nodes'[backgroundNoiseSourceRef].run = "stopped"
        /\ \A e \in edges' :
             e.src \notin ({backgroundNoiseSourceRef, backgroundNoiseGainRef} \ {Null})
        /\ (backgroundNoiseSourceRef = Null /\ backgroundNoiseGainRef = Null
              /\ ~isBackgroundNoiseActive) => UNCHANGED AllButOp)]_vars

\* C19 witness: stopBackgroundNoise has ended a playing noise session: its
\* source is stopped and neither node has a connection left
C19_Witness ==
  /\ op.name = "stopBackgroundNoise"
  /\ op.wasActive
  /\ \E n \in DOMAIN nodes : nodes[n].role = "noiseSource" /\ nodes[n].run = "stopped"
  /\ \A e \in edges : nodes[e.src].role \notin {"noiseSource", "noiseGain"}
  /\ backgroundNoiseSourceRef = Null

\* C20 (as stated): no node of a tone, noise or microphone graph is
\* constructed while the context is not running: within each start the
\* resume has completed successfully before the graph is built.
C20_NoGraphWhileSuspended ==
  [][Len(nodes') > Len(nodes) => ctxState = "running"]_vars

\* C21: over any sequence of click and keydown events the device context is
\* created at most once, and only by such an event: the first event creates
\* it, and an event that finds a context creates nothing.
C21_ContextCreatedOnce ==
  [][/\ contexts' <= 1
     /\ (contexts' # contexts \/ audioContextRef' # audioContextRef) =>
          (op'.name = "initAudioContext" /\ audioContextRef = Null /\ contexts' = contexts + 1)
     /\ (op'.name = "initAudioContext" /\ audioContextRef = Null) => audioContextRef' # Null
     /\ (op'.name = "initAudioContext" /\ audioContextRef # Null) =>
          UNCHANGED <<audioContextRef, contexts, ctxState, initResume>>]_vars

\* C21 witness: both the click and the keydown have happened, the second of
\* them was the last step, and one context exists
C21_Witness ==
  /\ op.name = "initAudioContext"
  /\ listeners = {}
  /\ contexts = 1
  /\ audioContextRef = 1

\* C22 (as stated): once the hook has unmounted, the context is closed,
\* isReady is false, no tone, noise or microphone node remains connected, no
\* capture track is left running and no automatic-mode timer is pending.
C22_UnmountReleasesAll ==
  ~mounted =>
    /\ audioContextRef # Null => ctxState = "closed"
    /\ ~isReady
    /\ {n \in DOMAIN nodes : \E e \in edges : e.src = n} = {}
    /\ LiveTracks = {}
    /\ timers = {}

\* C23: session types are independent.  startTone and stopTone leave the
\* noise and microphone state (references, graphs, flags) unchanged;
\* startBackgroundNoise and stopBackgroundNoise, with the step that completes
\* a start, leave tone and microphone state unchanged; startMicrophone and
\* stopMicrophone, with the step that completes a start, leave tone and noise
\* state unchanged.
C23_SessionTypesIndependent ==
  [][LET NoiseRoles == {"noiseSource", "noiseGain"}
         MicRoles == {"micSource", "micGain"}
         \* the nodes of the given roles in node table N, and their connections in E
         NodesOf(roles, N) == [n \in {m \in DOMAIN N : N[m].role \in roles} |-> N[n]]
         EdgesOf(roles, N, E) == {e \in E : N[e.src].role \in roles}
         \* the step leaves the tone session alone: references, graph, timers, flag
         ToneUntouched ==
           /\ UNCHANGED <<toneRefs, timers, isPlaying>>
           /\ NodesOf(ToneRoles, nodes') = NodesOf(ToneRoles, nodes)
           /\ EdgesOf(ToneRoles, nodes', edges') = EdgesOf(ToneRoles, nodes, edges)
         \* the step leaves the noise session alone: references, graph, flag
         NoiseUntouched ==
           /\ UNCHANGED <<noiseRefs, isBackgroundNoiseActive, noiseCalls>>
           /\ NodesOf(NoiseRoles, nodes') = NodesOf(NoiseRoles, nodes)
           /\ EdgesOf(NoiseRoles, nodes', edges') = EdgesOf(NoiseRoles, nodes, edges)
         \* the step leaves the microphone session alone: references, streams,
         \* graph, flag
         MicUntouched ==
           /\ UNCHANGED <<micRefs, streams, isMicrophoneActive, micCalls>>
           /\ NodesOf(MicRoles, nodes') = NodesOf(MicRoles, nodes)
           /\ EdgesOf(MicRoles, nodes', edges') = EdgesOf(MicRoles, nodes, edges)
     IN /\ op'.name \in {"startTone", "stopTone"} => (NoiseUntouched /\ MicUntouched)
        /\ op'.name \in {"startBackgroundNoise", "noiseLoadSettled", "stopBackgroundNoise"} =>
             (ToneUntouched /\ MicUntouched)
        /\ op'.name \in {"startMicrophone", "startSettled", "stopMicrophone"} =>
             (ToneUntouched /\ NoiseUntouched)]_vars

\* C23 witness: a tone was stopped while noise and the microphone monitor
\* were running, and both still run, connected to the sink
C23_Witness ==
  /\ op.name = "stopTone"
  /\ op.wasActive
  /\ isBackgroundNoiseActive
  /\ LiveNoiseSources # {}
  /\ isMicrophoneActive
  /\ LiveTracks # {}
  /\ ReachesSink(microphoneSourceRef)

\* C24: saveThreshold(frequency, intensity, laterality) is accepted only when
\* frequency is one of the eleven fixed frequencies; for any other frequency
\* it reports an error and leaves the whole thresholds table unchanged.
C24_SaveOnlyFixedFrequencies ==
  [][op'.name = "saveThreshold" =>
       IF op'.settings.frequency
            \in {125, 250, 500, 750, 1000, 1500, 2000, 3000, 4000, 6000, 8000}
         THEN toast' = "success"
         ELSE toast' = "error" /\ thresholds' = thresholds]_vars

\* C24 witness: a save at 137 Hz was answered with an error, and the table
\* still holds what an earlier save stored
C24_Witness ==
  /\ op.name = "saveThreshold"
  /\ op.settings.frequency = 137
  /\ toast = "error"
  /\ thresholds # initialThresholds
  /\ DOMAIN thresholds = DOMAIN initialThresholds

\* C25: an accepted saveThreshold(f, v, laterality) sets both right[f] and
\* left[f] to v for 'binaural', only right[f] for 'right' and only left[f]
\* for 'left', the other ear at f staying as it was; every entry at another
\* frequency is unchanged.
C25_SaveWritesChosenEars ==
  [][(op'.name = "saveThreshold" /\ toast' = "success") =>
       LET f == op'.settings.frequency
           v == op'.settings.intensity
           lat == op'.settings.laterality
       IN /\ DOMAIN thresholds' = DOMAIN thresholds
          /\ f \in DOMAIN thresholds
          /\ thresholds'[f].right = IF lat \in {"right", "binaural"} THEN v
                                    ELSE thresholds[f].right
          /\ thresholds'[f].left = IF lat \in {"left", "binaural"} THEN v
                                   ELSE thresholds[f].left
          /\ \A g \in DOMAIN thresholds \ {f} : thresholds'[g] = thresholds[g]]_vars

\* C25 witness: a save for the right ear only, at a frequency whose left ear
\* holds another value from an earlier save, next to an entry at another
\* frequency
C25_Witness ==
  /\ op.name = "saveThreshold"
  /\ toast = "success"
  /\ op.settings.laterality = "right"
  /\ thresholds[op.settings.frequency].right = op.settings.intensity
  /\ thresholds[op.settings.frequency].left \notin {NoThreshold, op.settings.intensity}
  /\ \E g \in DOMAIN thresholds \ {op.settings.frequency} : thresholds[g].left # NoThreshold

\* C26: for every stimulus type, the panner of a started tone holds exactly
\* -1 for laterality left, +1 for right and 0 for binaural (in thousandths),
\* and the playing tone goes through that panner to the sink.
C26_PanMatchesLaterality ==
  /\ \A n \in DOMAIN nodes :
       nodes[n].role = "panner" =>
         LET lat == sessions[nodes[n].sid].laterality
         IN /\ lat = "left" => nodes[n].val = -1000
            /\ lat = "right" => nodes[n].val = 1000
            /\ lat = "binaural" => nodes[n].val = 0
  /\ oscillatorRef # Null =>
       /\ nodes[pannerNodeRef].role = "panner"
       /\ nodes[pannerNodeRef].sid = toneSid
       /\ [src |-> gainNodeRef, dst |-> pannerNodeRef, port |-> "input"] \in edges
       /\ [src |-> pannerNodeRef, dst |-> 0, port |-> "destination"] \in edges

\* C26 witness: a pulsed tone plays to the right ear after a pure tone was
\* played to the left ear
C26_Witness ==
  /\ toneSid = 2
  /\ oscillatorRef # Null
  /\ sessions[1].stimulusType = "pure" /\ sessions[1].laterality = "left"
  /\ sessions[2].stimulusType = "pulsed" /\ sessions[2].laterality = "right"
  /\ nodes[pannerNodeRef].val = 1000
  /\ \E n \in DOMAIN nodes : nodes[n].role = "panner" /\ nodes[n].sid = 1 /\ nodes[n].val = -1000

\* C27 (as stated): in manual mode the tone plays only inside a press-release
\* interval (after every step, some press of mouse, touch or key is held if
\* it plays), and after every release the tone is not playing.
C27_ManualToneFollowsPress ==
  [][/\ (presentationMode' = "manual" /\ isPlaying') => pressed' # {}
     /\ (presentationMode = "manual" /\ pressed' # pressed /\ pressed' \subseteq pressed) =>
          ~isPlaying']_vars

\* C28 (as stated): every failure leaves the affected subsystem idle.  After
\* a failed microphone start isMicrophoneActive is false, no capture stream
\* is held with running tracks and no microphone node is connected; after a
\* failed context resume the engine is not ready and no session is active.
C28_FailureLeavesIdle ==
  [][/\ (op'.name = "startSettled" /\ Len(streams') = Len(streams)) =>
          /\ ~isMicrophoneActive'
          /\ mediaStreamRef' # Null =>
               \A i \in DOMAIN streams'[mediaStreamRef'].tracks :
                  streams'[mediaStreamRef'].tracks[i] = "ended"
          /\ ConnectedMicNodes' = {}
     /\ (op'.name = "initResumeSettled" /\ initResume' = "rejected") =>
          (~isReady' /\ ~isPlaying' /\ ~isBackgroundNoiseActive' /\ ~isMicrophoneActive')]_vars

\* C29 (as stated): a device enumeration that answers selects the first
\* enumerated audio input when no device is selected, and never replaces a
\* device id that is already selected.
C29_EnumerationKeepsSelection ==
  [][op'.name = "enumerateSettled" =>
       /\ (falsy(selectedMicrophoneId) /\ microphoneDevices' # microphoneDevices
             /\ Len(microphoneDevices') > 0) =>
            selectedMicrophoneId' = microphoneDevices'[1]
       /\ ~falsy(selectedMicrophoneId) => selectedMicrophoneId' = selectedMicrophoneId]_vars

\* C30: tone, background noise and microphone derive their linear gain from
\* the same intensity-to-gain function: the tone's target gain, the noise gain
\* and the microphone gain (at start and on a volume update) are each
\* dbToGain of the dB they were given, so equal dB inputs give equal gains.
C30_SameGainFunction ==
  [][LET \* the pairs <<dB input, linear gain written>> of a step
         \* lines 357-359: the target of the tone's fade-in
         ToneGainWritten ==
           IF op'.name = "startTone" /\ toneSid' # toneSid
             THEN {<<op'.settings.intensity, nodes'[gainNodeRef'].rampTo>>} ELSE {}
         \* lines 244-246: the gain of the background noise
         NoiseGainWritten ==
           IF op'.name = "noiseLoadSettled" /\ Len(nodes') > Len(nodes)
             THEN {<<c.volume, nodes'[backgroundNoiseGainRef'].val>> :
                     c \in noiseCalls \ noiseCalls'}
             ELSE {}
         \* lines 283-284: the gain of the microphone monitor at its start
         MicStartGainWritten ==
           IF op'.name = "startSettled" /\ Len(streams') > Len(streams)
             THEN {<<c.volume, nodes'[microphoneGainRef'].val>> : c \in micCalls \ micCalls'}
             ELSE {}
         \* lines 301-305: the gain of the microphone monitor on a volume update
         MicUpdateGainWritten ==
           IF /\ op'.name = "setMicrophoneVolume"
              /\ microphoneVolume' # microphoneVolume
              /\ microphoneGainRef # Null
             THEN {<<microphoneVolume', nodes'[microphoneGainRef].val>>} ELSE {}
     IN \A p \in ToneGainWritten \cup NoiseGainWritten \cup MicStartGainWritten
                    \cup MicUpdateGainWritten :
             p[2] = dbToGain(p[1])]_vars

\* a tone, a background noise and a microphone monitor run side by side, each
\* started from 50 dB, and their three gains are equal
C30_Witness ==
  /\ isPlaying /\ isBackgroundNoiseActive /\ isMicrophoneActive
  /\ gainNodeRef # Null /\ backgroundNoiseGainRef # Null /\ microphoneGainRef # Null
  /\ nodes[gainNodeRef].rampTo = dbToGain(50)
  /\ nodes[gainNodeRef].rampTo = nodes[backgroundNoiseGainRef].val
  /\ nodes[backgroundNoiseGainRef].val = nodes[microphoneGainRef].val

\* C31: the intensity-to-gain function 10^((db - 50) / 20) is strictly
\* increasing in db over [-10, 100] and is exactly 1.0 at db = 50.  Stated
\* for the intensity the panel holds against every other intensity of the
\* range, on the value Math.pow returns.
C31_GainStrictlyIncreasing ==
  /\ \A db \in -10..100 :
       db < intensity => MathPow10(db - DbReference) < MathPow10(intensity - DbReference)
  /\ \A db \in -10..100 :
       db > intensity => MathPow10(db - DbReference) > MathPow10(intensity - DbReference)
  /\ intensity = 50 => (MathPow10(intensity - DbReference) = Micro /\ dbToGain(intensity) = Scale)

\* C31 witness: a tone started at 50 dB plays with target gain 1.0 while the
\* panel has been moved to the lowest intensity
C31_Witness ==
  /\ isPlaying
  /\ gainNodeRef # Null
  /\ nodes[gainNodeRef].rampTo = Scale
  /\ intensity = -10

\* C32 (as stated): once stopBackgroundNoise has been called and no
\* startBackgroundNoise is called afterwards, background noise does not
\* become active again: a step that follows the stop and is not a new start,
\* such as the continuation of a start that was awaiting resume, fetch or
\* decode, connects no noise graph and leaves isBackgroundNoiseActive false.
C32_StopCancelsPendingStart ==
  [][(op.name = "stopBackgroundNoise" /\ op'.name # "startBackgroundNoise") =>
       (/\ ~isBackgroundNoiseActive'
        /\ backgroundNoiseSourceRef' = Null
        /\ nodes' = nodes /\ edges' = edges)]_vars

\* C33 (as stated): at most one microphone capture stream with running
\* tracks exists at any time, and a stopMicrophone releases every stream
\* startMicrophone acquired, also when startMicrophone was invoked again
\* before an earlier invocation's getUserMedia had answered.
C33_OneStreamAndStopReleases ==
  [][/\ Cardinality(LiveTracks') <= 1
     /\ op'.name = "stopMicrophone" => LiveTracks' = {}]_vars

\* C34 (as stated): in every reachable state isMicrophoneActive implies
\* microphonePermissionGranted, also when a permission revocation or a
\* stopMicrophone arrives while a startMicrophone call is awaiting
\* getUserMedia.
C34_ActiveImpliesGranted == isMicrophoneActive => microphonePermissionGranted

\* C35: the status flags agree with the held graphs in every reachable
\* state.  isPlaying is true exactly when a tone oscillator reference is
\* held, isBackgroundNoiseActive exactly when a noise source reference is
\* held; a warble or pulse modulator reference is held only while a tone
\* oscillator reference is held, and never both at once.
C35_FlagsAgreeWithRefs ==
  /\ isPlaying <=> oscillatorRef # Null
  /\ isBackgroundNoiseActive <=> backgroundNoiseSourceRef # Null
  /\ (warbleLfoRef # Null \/ pulsedLfoRef # Null) => oscillatorRef # Null
  /\ ~(warbleLfoRef # Null /\ pulsedLfoRef # Null)

\* C35 witness: a pulsed tone plays over running background noise after a
\* warble tone was stopped; only the pulse modulator is referenced
C35_Witness ==
  /\ isPlaying /\ oscillatorRef # Null
  /\ pulsedLfoRef # Null /\ warbleLfoRef = Null
  /\ isBackgroundNoiseActive /\ backgroundNoiseSourceRef # Null
  /\ \E n \in DOMAIN nodes : nodes[n].role = "warbleLfo" /\ nodes[n].run = "stopped"

\* C36 (as stated): after any sequence of saveThreshold calls and table
\* edits the thresholds table has exactly the eleven fixed frequencies as
\* keys and every stored value is null or an integer in [-10, 110]; a table
\* edit with a non-numeric or out-of-range value leaves the table unchanged
\* and an empty edit sets the entry to null.
C36_TableStaysWellFormed ==
  [][LET \* the text has a digit other than 0 after a decimal point
         HasFraction(str) ==
           \E i, j \in DOMAIN str : i < j /\ str[i] = Dot /\ str[j] \in 1..9
         NonNumeric(str) == str # EmptyString /\ parseInt(str).nan
         \* the number the text denotes lies outside [-10, 110]
         OutOfRange(str) ==
           /\ ~parseInt(str).nan
           /\ \/ parseInt(str).val < -10 \/ parseInt(str).val > 110
              \/ parseInt(str).val \in {-10, 110} /\ HasFraction(str)
     IN /\ DOMAIN thresholds' = DOMAIN initialThresholds
        /\ \A f \in DOMAIN thresholds' : \A ear \in {"right", "left"} :
             thresholds'[f][ear] = NoThreshold \/ thresholds'[f][ear] \in -10..110
        /\ \A ear \in {"right", "left"}, str \in TypedThresholds :
             handleInputChange(1000, ear, str) =>
               /\ str = EmptyString => thresholds'[1000][ear] = NoThreshold
               /\ (NonNumeric(str) \/ OutOfRange(str)) => thresholds' = thresholds]_vars

\* C37: isReady becomes true only after the device context has been created
\* and its resume has succeeded, so isReady implies that a context exists;
\* once that resume has failed, isReady stays false: the later click or
\* keydown does not call resume again.
C37_ReadyOnlyAfterResume ==
  [][/\ isReady' => (audioContextRef' # Null /\ initResume' = "resolved")
     /\ (~isReady /\ isReady') => op'.name = "initResumeSettled"
     /\ initResume = "rejected" => (initResume' = "rejected" /\ ~isReady')]_vars

\* C37 witness: the resume of the first interaction failed, the second
\* interaction came and changed nothing, and the page is not ready
C37_Witness ==
  /\ initResume = "rejected"
  /\ listeners = {}
  /\ op.name = "initAudioContext"
  /\ audioContextRef # Null
  /\ ~isReady

\* C38 (as stated): startBackgroundNoise with type 'none' stops any active
\* noise session and starts nothing: after the call isBackgroundNoiseActive
\* is false, no noise node is connected, and no fetch or decode was
\* triggered.  Stated for the step of the call and for the step that follows
\* it when that is not a new start.
C38_NoneStopsAndStartsNothing ==
  [][LET \* no noise node of graph <<N, E>> has an outgoing connection
         NoNoiseConnected(N, E) ==
           \A n \in DOMAIN N :
             N[n].role \in {"noiseSource", "noiseGain"} => ~\E e \in E : e.src = n
         \* the last operation was a start on an existing context that
         \* suspended no call, which is what type 'none' does
         AfterNone ==
           /\ op.name = "startBackgroundNoise"
           /\ audioContextRef # Null
           /\ ~\E c \in noiseCalls : c.id = op.sid
     IN /\ \A volume \in NoiseVolumes :
             startBackgroundNoise("none", volume) =>
               /\ ~isBackgroundNoiseActive'
               /\ backgroundNoiseSourceRef' = Null
               /\ NoNoiseConnected(nodes', edges')
               /\ noiseCalls' = noiseCalls
               /\ fetches' = fetches /\ decodes' = decodes
        /\ (AfterNone /\ op'.name # "startBackgroundNoise") =>
             (~isBackgroundNoiseActive' /\ NoNoiseConnected(nodes', edges'))]_vars
====
